---- MODULE Spec2Model ----
(***************************************************************************)
(* Model registry and binary decoders of the Vulkan renderer               *)
(* (tr_model.cpp, tr_model_iqm.cpp).                                       *)
(*                                                                         *)
(* Names and file names are sequences of one-character strings so that     *)
(* extension parsing, stripping and formatting are computed, not assumed.  *)
(* Byte offsets are relative to the start of the buffer they index.        *)
(***************************************************************************)
EXTENDS Integers, Sequences, FiniteSets, TLC

VARIABLES
    tr_numModels,   \* tr.numModels
    tr_models,      \* tr.models[]: slot -> model_t record, NullModel when not allocated
    fs,             \* file name -> buffer id, the content FS_ReadFile serves
    call,           \* the last public call: its arguments, result and the FS traffic it caused
    issued,         \* name -> last non-zero handle RE_RegisterModel returned since R_ModelInit
    failed,         \* names for which RE_RegisterModel allocated a slot and returned 0 since R_ModelInit
    md3in,          \* input buffer handed to R_LoadMD3 (decoder specification)
    md3out,         \* what R_LoadMD3 did with md3in
    mdrin,          \* input buffer handed to R_LoadMDR (decoder specification)
    mdrout,         \* what R_LoadMDR did with mdrin
    input,          \* arguments of the function a function specification applies
    outcome         \* what that function returned and stored

vars == <<tr_numModels, tr_models, fs, call, issued, failed, md3in, md3out, mdrin, mdrout,
          input, outcome>>

regVars == <<tr_numModels, tr_models, fs, call, issued, failed>>
md3Vars == <<md3in, md3out>>
mdrVars == <<mdrin, mdrout>>
funVars == <<input, outcome>>

----------------------------------------------------------------------------
(* Bounds of the model *)

\* capacity of tr.models[] in the model (the program's table is larger)
MAX_MOD_KNOWN == 3

\* files present at once in the modelled file system
MaxFiles == 2

----------------------------------------------------------------------------
(* Program constants *)

MAX_QPATH == 64
MD3_MAX_LODS == 3
MD3_VERSION == 15
MDR_VERSION == 2
SHADER_MAX_VERTEXES == 1000
SHADER_MAX_INDEXES == 6000

MD3_IDENT == "IDP3"
MDR_IDENT == "RDM5"
IQM_MAGIC == "INTERQUAKEMODEL"

sizeof_ident == 4
sizeof_md3Header_t == 108
sizeof_md3Frame_t == 56
sizeof_md3Tag_t == 112
sizeof_md3Surface_t == 108
sizeof_md3Shader_t == 68
sizeof_md3Triangle_t == 12
sizeof_md3St_t == 8
sizeof_md3XyzNormal_t == 8

NULL == "NULL"
NoFile == "NoFile"
\* a null model_t pointer, as the slot R_AllocModel returns
NoSlot == 0 - 1
\* a null payload pointer (mod.md3[lod], mod.modelData)
NoPayload == [data |-> NULL, decoded |-> FALSE]

MOD_BAD == "MOD_BAD"
MOD_BRUSH == "MOD_BRUSH"
MOD_MESH == "MOD_MESH"
MOD_MDR == "MOD_MDR"
MOD_IQM == "MOD_IQM"

----------------------------------------------------------------------------
(* C strings *)

RECURSIVE strchr(_, _, _)
\* index of the first c in s at or after position i, 0 when there is none
strchr(s, c, i) ==
    IF i > Len(s) THEN 0
    ELSE IF s[i] = c THEN i
    ELSE strchr(s, c, i + 1)

RECURSIVE strrchr(_, _, _)
\* index of the last c in s at or before position i, 0 when there is none
strrchr(s, c, i) ==
    IF i < 1 THEN 0
    ELSE IF s[i] = c THEN i
    ELSE strrchr(s, c, i - 1)

tolower(c) ==
    CASE c = "M" -> "m"
      [] c = "D" -> "d"
      [] c = "I" -> "i"
      [] c = "Q" -> "q"
      [] c = "R" -> "r"
      [] OTHER -> c

\* Q_stricmp_cpp(a, b) == 0
Q_stricmp_eq(a, b) ==
    /\ Len(a) = Len(b)
    /\ \A i \in 1..Len(a) : tolower(a[i]) = tolower(b[i])

\* the dot that starts the extension: the last dot, unless a slash follows it
ExtensionDot(name) ==
    LET dot == strrchr(name, ".", Len(name))
        slash == strrchr(name, "/", Len(name))
    IN IF dot # 0 /\ (slash = 0 \/ slash < dot) THEN dot ELSE 0

COM_GetExtension_cpp(name) ==
    LET dot == ExtensionDot(name)
    IN IF dot # 0 THEN SubSeq(name, dot + 1, Len(name)) ELSE <<>>

COM_StripExtension_cpp(name) ==
    LET dot == ExtensionDot(name)
    IN IF dot # 0 THEN SubSeq(name, 1, dot - 1) ELSE name

\* "%d" of a level-of-detail index
Digit(n) == CASE n = 0 -> "0" [] n = 1 -> "1" [] n = 2 -> "2" [] OTHER -> "3"

----------------------------------------------------------------------------
(* C integer arithmetic *)

\* "v > limit" evaluated in an unsigned type at least as wide as int, for a
\* value v computed from int operands: a negative v wraps to the top of the
\* unsigned range and so exceeds every limit that came from a file size.
GtUnsigned(v, limit) == v < 0 \/ v > limit

RECURSIVE BitOr(_, _)
\* a | b for non-negative a and b
BitOr(a, b) ==
    IF a = 0 THEN b
    ELSE IF b = 0 THEN a
    ELSE (IF a % 2 = 1 \/ b % 2 = 1 THEN 1 ELSE 0) + 2 * BitOr(a \div 2, b \div 2)

\* (unsigned)(a | b | c) > limit
UnsignedOrGt(a, b, c, limit) ==
    IF a < 0 \/ b < 0 \/ c < 0 THEN TRUE
    ELSE BitOr(a, BitOr(b, c)) > limit

\* a byte range [lo, hi) touched through a pointer into a block of `size` bytes
Range(lo, n) == <<lo, lo + n>>
InRegion(r, size) == r[1] >= 0 /\ r[2] <= size

----------------------------------------------------------------------------
(* R_LoadMD3 *)

\* An MD3 buffer is the record of the header fields the decoder reads, with
\* surfs the surface headers in the order the decoder meets them when it
\* starts at ofsSurfaces and advances by each surface's ofsEnd.

\* the garbled first surface check: a boolean converted to size_t is compared
\* with the file size
SurfaceEndCheck(b, s, p) ==
    LET truth == GtUnsigned(s.ofsEnd, b.fileSize) \/ (p + s.ofsEnd) # 0
    IN (IF truth THEN 1 ELSE 0) > b.fileSize

\* the validation of one surface header s; TRUE when the surface is rejected
MD3SurfaceRejected(b, s, p) ==
    \/ SurfaceEndCheck(b, s, p)
    \/ GtUnsigned(s.ofsTriangles, b.fileSize)
    \/ GtUnsigned(s.ofsShaders, b.fileSize)
    \/ GtUnsigned(s.ofsSt, b.fileSize)
    \/ GtUnsigned(s.ofsXyzNormals, b.fileSize)
    \/ GtUnsigned(s.ofsTriangles + s.numTriangles * sizeof_md3Triangle_t, b.fileSize)
    \/ GtUnsigned(s.ofsShaders + s.numShaders * sizeof_md3Shader_t, b.fileSize)
    \/ s.numShaders > 1048576
    \/ GtUnsigned(s.ofsSt + s.numVerts * sizeof_md3St_t, b.fileSize)
    \/ GtUnsigned(s.ofsXyzNormals + s.numVerts * sizeof_md3XyzNormal_t, b.fileSize)
    \/ s.numVerts >= SHADER_MAX_VERTEXES
    \/ s.numTriangles * 3 >= SHADER_MAX_INDEXES

\* the blocks of surface s at p that the decoder registers and byte-swaps
MD3SurfaceBlocks(s, p) ==
    (IF s.numShaders > 0
     THEN << Range(p + s.ofsShaders, s.numShaders * sizeof_md3Shader_t) >> ELSE << >>)
    \o (IF s.numTriangles > 0
        THEN << Range(p + s.ofsTriangles, s.numTriangles * sizeof_md3Triangle_t) >> ELSE << >>)
    \o (IF s.numVerts > 0
        THEN << Range(p + s.ofsSt, s.numVerts * sizeof_md3St_t) >> ELSE << >>)
    \o (IF s.numVerts * s.numFrames > 0
        THEN << Range(p + s.ofsXyzNormals, s.numVerts * s.numFrames * sizeof_md3XyzNormal_t) >>
        ELSE << >>)

AllInRegion(rs, size) == \A k \in 1..Len(rs) : InRegion(rs[k], size)

RECURSIVE MD3Surfaces(_, _, _, _, _)
\* the surface loop from surface i at offset p; acc the ranges touched so far
MD3Surfaces(b, size, i, p, acc) ==
    IF i > b.numSurfaces
    THEN [ret |-> TRUE, fault |-> FALSE, acc |-> acc, accepted |-> i - 1]
    ELSE
        LET hd == Range(p, sizeof_md3Surface_t)
        IN IF ~InRegion(hd, size) \/ i > Len(b.surfs)
           THEN [ret |-> FALSE, fault |-> TRUE, acc |-> Append(acc, hd), accepted |-> i - 1]
           ELSE
               LET s == b.surfs[i]
                   blocks == MD3SurfaceBlocks(s, p)
               IN IF MD3SurfaceRejected(b, s, p)
                  THEN [ret |-> FALSE, fault |-> FALSE, acc |-> Append(acc, hd), accepted |-> i - 1]
                  ELSE IF ~AllInRegion(blocks, size)
                  THEN [ret |-> FALSE, fault |-> TRUE, acc |-> Append(acc, hd) \o blocks,
                        accepted |-> i - 1]
                  ELSE MD3Surfaces(b, size, i + 1, p + s.ofsEnd, Append(acc, hd) \o blocks)

\* the header checks made after the copy; TRUE when the header is rejected
MD3HeaderRejected(b, size) ==
    \/ b.numFrames < 1
    \/ GtUnsigned(b.ofsFrames, size)
    \/ GtUnsigned(b.ofsTags, size)
    \/ GtUnsigned(b.ofsSurfaces, size)
    \/ UnsignedOrGt(b.numFrames, b.numTags, b.numSkins, 1048576)
    \/ GtUnsigned(b.ofsFrames + b.numFrames * sizeof_md3Frame_t, b.fileSize)
    \/ GtUnsigned(b.ofsTags + b.numTags * b.numFrames * sizeof_md3Tag_t, b.fileSize)
    \/ GtUnsigned(b.ofsSurfaces + (IF b.numSurfaces # 0 THEN 1 ELSE 0) * sizeof_md3Surface_t,
                  b.fileSize)

\* frames and tags byte-swapped in place
MD3FrameTagBlocks(b) ==
    << Range(b.ofsFrames, b.numFrames * sizeof_md3Frame_t) >>
    \o (IF b.numTags * b.numFrames > 0
        THEN << Range(b.ofsTags, b.numTags * b.numFrames * sizeof_md3Tag_t) >> ELSE << >>)

\* What R_LoadMD3 does with buffer b:
\*   ret    its return value (meaningless when fault)
\*   fault  it touched a byte outside the block it allocated
\*   alloc  it attached a block to mod.md3[lod] and added size to mod.dataSize
\*   acc    the byte ranges of that block it read or wrote, in order
MD3Decode(b) ==
    LET size == b.ofsEnd
        none == [ret |-> FALSE, fault |-> FALSE, alloc |-> FALSE, size |-> 0,
                 acc |-> << >>, accepted |-> 0]
        hdr == Range(0, sizeof_md3Header_t)
    IN IF b.version # MD3_VERSION THEN none
       ELSE IF GtUnsigned(size, b.fileSize) THEN none
       ELSE IF ~InRegion(hdr, size)
       THEN [none EXCEPT !.fault = TRUE, !.alloc = TRUE, !.size = size, !.acc = << hdr >>]
       ELSE IF MD3HeaderRejected(b, size)
       THEN [none EXCEPT !.alloc = TRUE, !.size = size, !.acc = << hdr >>]
       ELSE IF ~AllInRegion(MD3FrameTagBlocks(b), size)
       THEN [none EXCEPT !.fault = TRUE, !.alloc = TRUE, !.size = size,
                         !.acc = << hdr >> \o MD3FrameTagBlocks(b)]
       ELSE LET Result(w) == [ret |-> w.ret, fault |-> w.fault, alloc |-> TRUE, size |-> size,
                                  acc |-> w.acc, accepted |-> w.accepted]
            IN Result(MD3Surfaces(b, size, 1, b.ofsSurfaces,
                                  << hdr >> \o MD3FrameTagBlocks(b)))

----------------------------------------------------------------------------
(* R_LoadMDR *)

sizeof_mdrHeader_t == 104
sizeof_mdrFrame_t == 104
sizeof_mdrFrame_name == 16
sizeof_mdrBone_t == 48
sizeof_mdrCompBone_t == 24
sizeof_mdrLOD_t == 12
sizeof_mdrSurface_t == 172
sizeof_mdrVertex_t == 44
sizeof_mdrWeight_t == 20
sizeof_mdrTriangle_t == 12
sizeof_mdrTag_t == 36
\* offsetof(mdrHeader_t, version) and offsetof(mdrHeader_t, ofsTags)
offsetof_mdrHeader_version == 4
offsetof_mdrHeader_ofsTags == 96
\* offsetof(mdrFrame_t, bones) and offsetof(mdrCompFrame_t, bones)
offsetof_mdrFrame_bones == 56
offsetof_mdrCompFrame_bones == 40
\* offsetof(mdrVertex_t, numWeights) and offsetof(mdrVertex_t, weights)
offsetof_mdrVertex_numWeights == 20
offsetof_mdrVertex_weights == 24

\* An MDR buffer is the record of the header fields the decoder reads, with
\* lods the level-of-detail records in the order the decoder meets them from
\* ofsLODs, each with its surfaces (surfs) in the order met from ofsSurfaces,
\* each with the numWeights of its vertices (weights) in the order met from
\* ofsVerts.
\*
\* The walk carries a record w:
\*   stop  "" while decoding, "reject" after return false, "fault" after a
\*         read outside the file
\*   src   the byte ranges read from the file buffer, in order
\*   dst   the byte ranges written to the allocated block, in order
\*   d, c  the write cursor in the block and the read cursor in the file

ReadSrc(w, r, fileSize) ==
    IF InRegion(r, fileSize)
    THEN [w EXCEPT !.src = Append(@, r)]
    ELSE [w EXCEPT !.src = Append(@, r), !.stop = "fault"]

WriteDst(w, r) == [w EXCEPT !.dst = Append(@, r)]

Reject(w) == [w EXCEPT !.stop = "reject"]

RECURSIVE MDRVerts(_, _, _, _, _)
\* the vertex loop of one surface from vertex j
MDRVerts(sf, size, fileSize, j, w) ==
    IF w.stop # "" \/ j > sf.numVerts THEN w
    ELSE
        LET w1 == ReadSrc(w, Range(w.c + offsetof_mdrVertex_numWeights, 4), fileSize)
        IN IF w1.stop # "" \/ j > Len(sf.weights) THEN [w1 EXCEPT !.stop = "fault"]
           ELSE
               LET nw == sf.weights[j]
                   len == offsetof_mdrVertex_weights + nw * sizeof_mdrWeight_t
               IN IF nw < 0 \/ w.d + sizeof_mdrVertex_t + (nw - 1) * sizeof_mdrWeight_t > size
                  THEN Reject(w1)
                  ELSE
                      LET w2 == ReadSrc(w1, Range(w.c, len), fileSize)
                          w3 == WriteDst(w2, Range(w.d, len))
                      IN IF w2.stop # "" THEN w2
                         ELSE MDRVerts(sf, size, fileSize, j + 1,
                                       [w3 EXCEPT !.d = @ + len, !.c = @ + len])

\* one surface: header, vertexes, triangles; cs is its offset in the file
MDRSurface(sf, size, fileSize, cs, w) ==
    LET tris == sf.numTriangles * sizeof_mdrTriangle_t
        \* the triangles, after the vertex loop left w3
        Triangles(w3) ==
            IF w3.stop # "" THEN w3
            ELSE IF sf.numTriangles < 0 \/ w3.d + tris > size THEN Reject(w3)
            ELSE IF sf.numTriangles = 0 THEN [w3 EXCEPT !.c = cs + sf.ofsEnd]
            ELSE LET w4 == ReadSrc(w3, Range(cs + sf.ofsTriangles, tris), fileSize)
                 IN IF w4.stop # "" THEN w4
                    ELSE [WriteDst(w4, Range(w3.d, tris)) EXCEPT !.d = @ + tris,
                                                                 !.c = cs + sf.ofsEnd]
        \* the limits and the vertex loop, after the header copy left w1
        Vertexes(w1) ==
            IF w1.stop # "" THEN w1
            ELSE IF sf.numVerts >= SHADER_MAX_VERTEXES THEN Reject(w1)
            ELSE IF sf.numTriangles * 3 >= SHADER_MAX_INDEXES THEN Reject(w1)
            ELSE Triangles(MDRVerts(sf, size, fileSize, 1,
                                    [w1 EXCEPT !.d = @ + sizeof_mdrSurface_t,
                                               !.c = cs + sf.ofsVerts]))
    IN IF w.d + sizeof_mdrSurface_t > size THEN Reject(w)
       ELSE LET w0 == ReadSrc(w, Range(cs, sizeof_mdrSurface_t), fileSize)
            IN Vertexes(IF w0.stop # "" THEN w0
                        ELSE WriteDst(w0, Range(w.d, sizeof_mdrSurface_t)))

RECURSIVE MDRSurfs(_, _, _, _, _, _)
\* the surface loop of one LOD from surface i at file offset cs
MDRSurfs(lod, size, fileSize, i, cs, w) ==
    LET Rest(w1) == IF w1.stop # "" THEN w1
                    ELSE MDRSurfs(lod, size, fileSize, i + 1, w1.c, w1)
    IN IF w.stop # "" \/ i > lod.numSurfaces THEN w
       ELSE IF i > Len(lod.surfs) THEN [w EXCEPT !.stop = "fault"]
       ELSE Rest(MDRSurface(lod.surfs[i], size, fileSize, cs, w))

RECURSIVE MDRLods(_, _, _, _, _)
\* the LOD loop from LOD l at file offset cl
MDRLods(b, size, l, cl, w) ==
    LET Rest(w3) == IF w3.stop # "" THEN w3
                    ELSE MDRLods(b, size, l + 1, cl + b.lods[l].ofsEnd, w3)
    IN IF w.stop # "" \/ l > b.numLODs THEN w
       ELSE IF w.d + sizeof_mdrLOD_t > size THEN Reject(w)
       ELSE
           LET w1 == ReadSrc(w, Range(cl, sizeof_mdrLOD_t), b.fileSize)
               w2 == WriteDst(w1, Range(w.d, sizeof_mdrLOD_t))
           IN IF w1.stop # "" \/ l > Len(b.lods) THEN [w1 EXCEPT !.stop = "fault"]
              ELSE Rest(MDRSurfs(b.lods[l], size, b.fileSize, 1, cl + b.lods[l].ofsSurfaces,
                                 [w2 EXCEPT !.d = @ + sizeof_mdrLOD_t]))

\* int arithmetic: the low 32 bits of a sum or a product, read as an int
\* (what static_cast<int> and an int += size_t keep of a size_t value)
INT32_MAX == 2147483647

WrapAdd32(a, b) ==
    IF a >= 0 /\ b >= 0 /\ a > INT32_MAX - b
    THEN (a - INT32_MAX - 1) + (b - INT32_MAX - 1)
    ELSE IF a < 0 /\ b < 0 /\ a < (0 - INT32_MAX - 1) - b
    THEN (a + INT32_MAX + 1) + (b + INT32_MAX + 1)
    ELSE a + b

\* the four bytes of an int, lowest first (two's complement)
Bytes32(x) ==
    << x % 256, (x \div 256) % 256, (x \div 65536) % 256, (x \div 16777216) % 256 >>

\* the int with the given high and low 16 bits
FromHalves32(hi, lo) ==
    IF hi >= 32768 THEN (hi - 65536) * 65536 + lo ELSE hi * 65536 + lo

\* schoolbook product of two byte quadruples, columns above bit 31 dropped
MulBytes32(p, q) ==
    LET low == p[1] * q[1] + (p[1] * q[2] + p[2] * q[1]) * 256
        high == (p[1] * q[3] + p[2] * q[2] + p[3] * q[1])
                + (p[1] * q[4] + p[2] * q[3] + p[3] * q[2] + p[4] * q[1]) * 256
        Sum(l) == FromHalves32((l \div 65536 + high) % 65536, l % 65536)
    IN Sum(low)

WrapMul32(a, n) == MulBytes32(Bytes32(a), Bytes32(n))

\* the bytes n elements of elem bytes cover from a pointer; pointers are wider
\* than int, so the extent does not wrap: it is cut at a length beyond every
\* block and file of this module
Extent(n, elem) ==
    IF n > (INT32_MAX \div 2) \div elem THEN INT32_MAX \div 2 ELSE n * elem

\* the size of the block to allocate: the declared end offset, grown for a
\* compressed source by the frame names and the uncompressed bones
\* (size is an int; numFrames * numBones is an int product)
MDRAllocSize(b) ==
    LET bones == WrapMul32(b.numFrames, b.numBones)
    IN IF b.ofsFrames < 0
       THEN WrapAdd32(WrapAdd32(b.ofsEnd, WrapMul32(sizeof_mdrFrame_name, b.numFrames)),
                      WrapMul32(sizeof_mdrBone_t - sizeof_mdrCompBone_t, bones))
       ELSE b.ofsEnd

\* "simple bounds check" of the header; TRUE when rejected
MDRStructureRejected(b, size) ==
    \/ b.numBones < 0
    \/ LET bones == WrapMul32(sizeof_mdrBone_t, b.numBones - 1)
           frame == WrapAdd32(sizeof_mdrFrame_t, bones)
           frames == WrapMul32(frame, b.numFrames)
       IN WrapAdd32(sizeof_mdrHeader_t, frames) > size

\* a write the decoder makes without a check of its own: outside the block
\* it is a fault
WriteBlock(w, r, size) ==
    IF InRegion(r, size)
    THEN [w EXCEPT !.dst = Append(@, r)]
    ELSE [w EXCEPT !.dst = Append(@, r), !.stop = "wfault"]

RECURSIVE MDRFrames(_, _, _, _)
\* the frame loop from frame i: for each frame the bounds, origin, radius and
\* name, then the bones; a compressed source has shorter frames than the block
MDRFrames(b, size, i, w) ==
    LET comp == b.ofsFrames < 0
        srcHead == IF comp THEN offsetof_mdrCompFrame_bones ELSE offsetof_mdrFrame_bones
        srcBones == Extent(b.numBones, IF comp THEN sizeof_mdrCompBone_t ELSE sizeof_mdrBone_t)
        dstBones == Extent(b.numBones, sizeof_mdrBone_t)
        Copy(w1, from, to) ==
            IF w1.stop # "" \/ to = 0 THEN w1
            ELSE LET Put(w2) == IF w2.stop # "" THEN w2
                                ELSE [WriteBlock(w2, Range(w1.d, to), size)
                                         EXCEPT !.d = @ + to, !.c = @ + from]
                 IN Put(ReadSrc(w1, Range(w1.c, from), b.fileSize))
    IN IF w.stop # "" \/ i > b.numFrames THEN w
       ELSE MDRFrames(b, size, i + 1,
                      Copy(Copy(w, srcHead, offsetof_mdrFrame_bones), srcBones, dstBones))

\* What R_LoadMDR does with buffer b:
\*   ret      its return value (meaningless when fault or wfault)
\*   fault    it read a byte outside the file buffer
\*   wfault   it wrote a byte outside the block it allocated
\*   typed    it set mod.type to MOD_MDR
\*   alloc    it attached a block to mod.modelData and added size to mod.dataSize
\*   src, dst the byte ranges read from the file and written to the block
\*   ofs      the offsets it stored in the block's header, 0 where not stored
MDRDecode(b) ==
    LET hdr == Range(0, sizeof_mdrHeader_t)
        ver == Range(offsetof_mdrHeader_version, 4)
        \* the header up to numTags, copied before the frame count is looked at
        counts == Range(0, offsetof_mdrHeader_ofsTags)
        size == MDRAllocSize(b)
        noOfs == [frames |-> 0, lods |-> 0, tags |-> 0, end |-> 0]
        early == [ret |-> FALSE, fault |-> FALSE, wfault |-> FALSE, typed |-> FALSE,
                  alloc |-> FALSE, size |-> 0, numLods |-> 0, src |-> << ver >>,
                  dst |-> << >>, ofs |-> noOfs]
        none == [early EXCEPT !.src = << ver, hdr >>]
    IN IF ~InRegion(ver, b.fileSize) THEN [early EXCEPT !.fault = TRUE]
       ELSE IF b.version # MDR_VERSION THEN early
       ELSE IF ~InRegion(hdr, b.fileSize) THEN [none EXCEPT !.fault = TRUE]
       ELSE IF b.ofsEnd > b.fileSize THEN none
       ELSE IF MDRStructureRejected(b, size) THEN [none EXCEPT !.typed = TRUE]
       ELSE IF ~InRegion(counts, size)
       THEN [none EXCEPT !.typed = TRUE, !.alloc = TRUE, !.size = size, !.wfault = TRUE,
                         !.dst = << counts >>]
       ELSE IF b.numFrames < 1
       THEN [none EXCEPT !.typed = TRUE, !.alloc = TRUE, !.size = size,
                         !.numLods = b.numLODs, !.dst = << counts >>]
       ELSE
           LET w0 == [stop |-> "", src |-> << ver, hdr >>, dst |-> << hdr >>,
                      d |-> sizeof_mdrHeader_t,
                      c |-> IF b.ofsFrames < 0 THEN 0 - b.ofsFrames ELSE b.ofsFrames,
                      ofs |-> [noOfs EXCEPT !.frames = sizeof_mdrHeader_t]]
               Result(w3) ==
                   [ret |-> w3.stop = "", fault |-> w3.stop = "fault",
                    wfault |-> w3.stop = "wfault", typed |-> TRUE,
                    alloc |-> TRUE, size |-> size, numLods |-> b.numLODs,
                    src |-> w3.src, dst |-> w3.dst, ofs |-> w3.ofs]
               \* the tags, after the LOD loop left w2
               Tags(w2) ==
                   IF w2.stop # "" THEN w2
                   ELSE IF b.numTags < 0 \/ w2.d + Extent(b.numTags, sizeof_mdrTag_t) > size
                   THEN Reject([w2 EXCEPT !.ofs.tags = w2.d])
                   ELSE IF b.numTags > 0
                   THEN LET Put(w3) ==
                                IF w3.stop # "" THEN w3
                                ELSE [WriteDst(w3, Range(w2.d, b.numTags * sizeof_mdrTag_t))
                                         EXCEPT !.ofs.end = w2.d + b.numTags * sizeof_mdrTag_t]
                        IN Put(ReadSrc([w2 EXCEPT !.ofs.tags = w2.d],
                                       Range(b.ofsTags, b.numTags * sizeof_mdrTag_t),
                                       b.fileSize))
                   ELSE [w2 EXCEPT !.ofs.tags = w2.d, !.ofs.end = w2.d]
               \* the LODs, after the frame loop left w1
               Lods(w1) ==
                   IF w1.stop # "" THEN w1
                   ELSE Tags(MDRLods(b, size, 1, b.ofsLODs, [w1 EXCEPT !.ofs.lods = w1.d]))
           IN Result(Lods(MDRFrames(b, size, 1, w0)))

----------------------------------------------------------------------------
(* R_LoadIQM, as far as the registry depends on it *)

sizeof_iqmHeader_t == 124
IQM_VERSION == 2
IQM_MAX_FILESIZE == 16777216

\* An IQM buffer is reduced to the header fields checked first and to
\* tablesValid, the verdict of every later validation of the tables.
\* R_LoadIQM touches the model record only after its last return false.
IQMDecode(b) ==
    LET ok == /\ b.fileSize >= sizeof_iqmHeader_t
              /\ b.magic = IQM_MAGIC
              /\ b.version = IQM_VERSION
              /\ b.filesize <= b.fileSize
              /\ b.filesize <= IQM_MAX_FILESIZE
              /\ b.tablesValid
    IN [ret |-> ok, alloc |-> ok]

----------------------------------------------------------------------------
(* File contents served by FS_ReadFile *)

ValidMD3 ==
    [fileSize |-> 164, version |-> MD3_VERSION, ofsEnd |-> 164, numFrames |-> 1,
     numTags |-> 0, numSurfaces |-> 0, numSkins |-> 0, ofsFrames |-> 108,
     ofsTags |-> 164, ofsSurfaces |-> 164, surfs |-> << >>]

ValidMDR ==
    [fileSize |-> 208, version |-> MDR_VERSION, ofsEnd |-> 208, numFrames |-> 1,
     numBones |-> 1, ofsFrames |-> 104, numLODs |-> 0, ofsLODs |-> 208,
     numTags |-> 0, ofsTags |-> 208, lods |-> << >>]

ValidIQM ==
    [fileSize |-> 124, magic |-> IQM_MAGIC, version |-> IQM_VERSION, filesize |-> 124,
     tablesValid |-> TRUE]

Buffers ==
    {"md3_ok", "md3_badversion", "md3_noframes", "md3_truncated",
     "mdr_ok", "mdr_noframes", "iqm_ok", "iqm_bad"}

\* the leading 32-bit identifier of a buffer
Ident(id) ==
    CASE id \in {"md3_ok", "md3_badversion", "md3_noframes", "md3_truncated"} -> MD3_IDENT
      [] id \in {"mdr_ok", "mdr_noframes"} -> MDR_IDENT
      [] OTHER -> "INTE"

MD3Buffer(id) ==
    CASE id = "md3_ok" -> ValidMD3
      [] id = "md3_badversion" -> [ValidMD3 EXCEPT !.version = 14]
      [] id = "md3_noframes" -> [ValidMD3 EXCEPT !.numFrames = 0]
      [] OTHER -> [ValidMD3 EXCEPT !.fileSize = 50]

MDRBuffer(id) ==
    CASE id = "mdr_ok" -> ValidMDR
      [] OTHER -> [ValidMDR EXCEPT !.numFrames = 0]

\* R_LoadIQM is handed whatever the file holds: a buffer of another format
\* fails its magic comparison
IQMBuffer(id) ==
    CASE id = "iqm_ok" -> ValidIQM
      [] id = "iqm_bad" -> [ValidIQM EXCEPT !.tablesValid = FALSE]
      [] id \in {"mdr_ok", "mdr_noframes"} ->
            [ValidIQM EXCEPT !.magic = MDR_IDENT, !.fileSize = 208]
      [] id = "md3_truncated" -> [ValidIQM EXCEPT !.magic = MD3_IDENT, !.fileSize = 50]
      [] id = "short" -> [ValidIQM EXCEPT !.magic = MD3_IDENT, !.fileSize = 2]
      [] OTHER -> [ValidIQM EXCEPT !.magic = MD3_IDENT, !.fileSize = 164]

FileSize(id) ==
    CASE Ident(id) = MD3_IDENT -> MD3Buffer(id).fileSize
      [] Ident(id) = MDR_IDENT -> MDRBuffer(id).fileSize
      [] OTHER -> IQMBuffer(id).fileSize

\* ri.FS_ReadFile: the buffer, or NoFile (a null buffer) for an absent file
FS_ReadFile(path) == IF path \in DOMAIN fs THEN fs[path] ELSE NoFile

----------------------------------------------------------------------------
(* The model table *)

\* a zeroed model_t from the hunk
HunkModel ==
    [name |-> << >>, type |-> MOD_BAD, index |-> 0, dataSize |-> 0, numLods |-> 0,
     md3 |-> [l \in 0..(MD3_MAX_LODS - 1) |-> NoPayload], modelData |-> NoPayload]

\* a slot of tr.models[] that was never assigned
NullModel == [HunkModel EXCEPT !.index = NoSlot]

\* R_AllocModel with the ceiling one too high (numModels > MAX_MOD_KNOWN):
\* C22 fails under it
R_AllocModel_CeilingOffByOne(t) ==
    IF t.numModels > MAX_MOD_KNOWN
    THEN [t |-> t, mod |-> NoSlot]
    ELSE [t |-> [numModels |-> t.numModels + 1,
                 models |-> [t.models EXCEPT ![t.numModels] =
                                [HunkModel EXCEPT !.index = t.numModels]]],
          mod |-> t.numModels]

\* R_AllocModel on table t = [numModels, models]: the new table and the slot, or NULL
R_AllocModel(t) ==
    IF t.numModels >= MAX_MOD_KNOWN
    THEN [t |-> t, mod |-> NoSlot]
    ELSE [t |-> [numModels |-> t.numModels + 1,
                 models |-> [t.models EXCEPT ![t.numModels] =
                                [HunkModel EXCEPT !.index = t.numModels]]],
          mod |-> t.numModels]

\* R_GetModelByHandle with the upper test off by one (index > tr.numModels):
\* C3 fails under it
R_GetModelByHandle_OffByOne(index) ==
    IF index < 1 \/ index > tr_numModels THEN 0 ELSE index

\* R_GetModelByHandle: the slot whose record is returned
R_GetModelByHandle(index) ==
    IF index < 1 \/ index >= tr_numModels THEN 0 ELSE index

----------------------------------------------------------------------------
(* The three loaders.  A loader state ls carries the model record being      *)
(* filled and the file-system traffic: reads (FS_ReadFile calls), frees      *)
(* (FS_FreeFile calls) and decodes (R_Load* calls), each in call order.      *)

R_LoadMD3(mod, lod, id) ==
    LET Attach(r) ==
            [ret |-> r.ret,
             mod |-> IF r.alloc
                     THEN [mod EXCEPT !.type = MOD_MESH, !.dataSize = @ + r.size,
                                      !.md3[lod] = [data |-> id, decoded |-> r.ret]]
                     ELSE mod]
    IN Attach(MD3Decode(MD3Buffer(id)))

R_LoadMDR(mod, id) ==
    LET Attach(r) ==
            LET m1 == IF r.typed THEN [mod EXCEPT !.type = MOD_MDR] ELSE mod
            IN [ret |-> r.ret,
                mod |-> IF r.alloc
                        THEN [m1 EXCEPT !.dataSize = @ + r.size, !.numLods = r.numLods,
                                        !.modelData = [data |-> id, decoded |-> r.ret]]
                        ELSE m1]
    IN Attach(MDRDecode(MDRBuffer(id)))

R_LoadIQM(mod, id) ==
    LET Attach(r) ==
            [ret |-> r.ret,
             mod |-> IF r.alloc
                     THEN [mod EXCEPT !.type = MOD_IQM,
                                      !.modelData = [data |-> id, decoded |-> r.ret]]
                     ELSE mod]
    IN Attach(IQMDecode(IQMBuffer(id)))

\* "%s_%d.%s" and "%s.%s" into namebuf
LodFileName(filename, lod, fext) ==
    IF lod # 0
    THEN filename \o << "_", Digit(lod), "." >> \o fext
    ELSE filename \o << "." >> \o fext

RECURSIVE MD3LodLoop(_, _, _, _)
\* the for loop over lod of R_RegisterMD3; st = [ls, loaded, numLoaded, lod]
\* and the result's lod is the value of the loop variable when the loop ends
MD3LodLoop(filename, fext, lod, st) ==
    LET namebuf == LodFileName(filename, lod, fext)
        id == FS_ReadFile(namebuf)
        s1 == [st EXCEPT !.ls.reads = Append(@, namebuf), !.lod = lod]
        known == Ident(id) = MD3_IDENT
        \* "if (loaded) { mod.numLods++; numLoaded++; } else break;"
        Count(s2) ==
            IF s2.loaded
            THEN MD3LodLoop(filename, fext, lod - 1,
                            [s2 EXCEPT !.ls.mod.numLods = @ + 1, !.numLoaded = @ + 1])
            ELSE s2
        \* after the decoder, if it was called, returned ld
        Decoded(ld) ==
            Count([s1 EXCEPT !.ls.mod = ld.mod, !.loaded = ld.ret,
                             !.ls.frees = Append(@, namebuf),
                             !.ls.decodes = IF known THEN Append(@, << "md3", namebuf >>)
                                            ELSE @])
    IN IF lod < 0 THEN [st EXCEPT !.lod = lod]
       ELSE IF id = NoFile THEN MD3LodLoop(filename, fext, lod - 1, s1)
       ELSE IF FileSize(id) < sizeof_md3Header_t
       THEN [s1 EXCEPT !.ls.frees = Append(@, namebuf)]
       ELSE Decoded(IF known THEN R_LoadMD3(s1.ls.mod, lod, id)
                    ELSE [ret |-> s1.loaded, mod |-> s1.ls.mod])

RECURSIVE MD3Duplicate(_, _)
\* for (lod--; lod >= 0; lod--), entered with lod already decremented
MD3Duplicate(mod, lod) ==
    IF lod < 0 THEN mod
    ELSE MD3Duplicate([mod EXCEPT !.numLods = @ + 1, !.md3[lod] = mod.md3[lod + 1]], lod - 1)

R_RegisterMD3(name, ls) ==
    LET dot == strchr(name, ".", 1)
        filename == IF dot = 0 THEN name ELSE SubSeq(name, 1, dot - 1)
        fext == IF dot = 0 THEN << "m", "d", "3" >> ELSE SubSeq(name, dot + 1, Len(name))
        \* after the lod loop ended in st
        Finish(st) ==
            IF st.numLoaded # 0
            THEN [h |-> st.ls.mod.index,
                  ls |-> [st.ls EXCEPT !.mod = MD3Duplicate(st.ls.mod, st.lod - 1)]]
            ELSE [h |-> 0, ls |-> [st.ls EXCEPT !.mod.type = MOD_BAD]]
    IN Finish(MD3LodLoop(filename, fext, MD3_MAX_LODS - 1,
                         [ls |-> ls, loaded |-> FALSE, numLoaded |-> 0,
                          lod |-> MD3_MAX_LODS - 1]))

\* R_RegisterMDR returning on a buffer shorter than the identifier without
\* FS_FreeFile: C26 fails under it
R_RegisterMDR_LeakOnShort(name, ls) ==
    LET id == FS_ReadFile(name)
        l1 == [ls EXCEPT !.reads = Append(@, name)]
        bad == [l1 EXCEPT !.mod.type = MOD_BAD]
        known == Ident(id) = MDR_IDENT
        Finish(ld) ==
            LET l2 == [l1 EXCEPT !.mod = ld.mod, !.frees = Append(@, name),
                                 !.decodes = IF known THEN Append(@, << "mdr", name >>) ELSE @]
            IN IF ~ld.ret
               THEN [h |-> 0, ls |-> [l2 EXCEPT !.mod.type = MOD_BAD]]
               ELSE [h |-> l2.mod.index, ls |-> l2]
    IN IF id = NoFile THEN [h |-> 0, ls |-> bad]
       ELSE IF FileSize(id) < sizeof_ident
       THEN [h |-> 0, ls |-> bad]
       ELSE Finish(IF known THEN R_LoadMDR(l1.mod, id) ELSE [ret |-> FALSE, mod |-> l1.mod])

R_RegisterMDR(name, ls) ==
    LET id == FS_ReadFile(name)
        l1 == [ls EXCEPT !.reads = Append(@, name)]
        bad == [l1 EXCEPT !.mod.type = MOD_BAD]
        known == Ident(id) = MDR_IDENT
        \* after the decoder, if it was called, returned ld
        Finish(ld) ==
            LET l2 == [l1 EXCEPT !.mod = ld.mod, !.frees = Append(@, name),
                                 !.decodes = IF known THEN Append(@, << "mdr", name >>) ELSE @]
            IN IF ~ld.ret
               THEN [h |-> 0, ls |-> [l2 EXCEPT !.mod.type = MOD_BAD]]
               ELSE [h |-> l2.mod.index, ls |-> l2]
    IN IF id = NoFile THEN [h |-> 0, ls |-> bad]
       ELSE IF FileSize(id) < sizeof_ident
       THEN [h |-> 0, ls |-> [bad EXCEPT !.frees = Append(@, name)]]
       ELSE Finish(IF known THEN R_LoadMDR(l1.mod, id) ELSE [ret |-> FALSE, mod |-> l1.mod])

R_RegisterIQM(name, ls) ==
    LET id == FS_ReadFile(name)
        l1 == [ls EXCEPT !.reads = Append(@, name)]
        Finish(ld) ==
            LET l2 == [l1 EXCEPT !.mod = ld.mod, !.frees = Append(@, name),
                                 !.decodes = Append(@, << "iqm", name >>)]
            IN IF ~ld.ret
               THEN [h |-> 0, ls |-> [l2 EXCEPT !.mod.type = MOD_BAD]]
               ELSE [h |-> l2.mod.index, ls |-> l2]
    IN IF id = NoFile THEN [h |-> 0, ls |-> [l1 EXCEPT !.mod.type = MOD_BAD]]
       ELSE Finish(R_LoadIQM(l1.mod, id))

\* Note that the ordering indicates the order of preference
modelLoaders ==
    << [ext |-> << "i", "q", "m" >>, ModelLoader |-> "R_RegisterIQM"],
       [ext |-> << "m", "d", "r" >>, ModelLoader |-> "R_RegisterMDR"],
       [ext |-> << "m", "d", "3" >>, ModelLoader |-> "R_RegisterMD3"] >>

numModelLoaders == Len(modelLoaders)

\* modelLoaders[i].ModelLoader(name, *mod)
ModelLoader(i, name, ls) ==
    CASE modelLoaders[i].ModelLoader = "R_RegisterIQM" -> R_RegisterIQM(name, ls)
      [] modelLoaders[i].ModelLoader = "R_RegisterMDR" -> R_RegisterMDR(name, ls)
      [] OTHER -> R_RegisterMD3(name, ls)

----------------------------------------------------------------------------
(* RE_RegisterModel *)

\* the search with a name comparison that never matches: C1 fails under it
SearchModels_NoMatch(t, name, hModel) == t.numModels

RECURSIVE SearchModels_SkipBad(_, _, _)
\* the search passing over the slots of type MOD_BAD, so that a failed name
\* is loaded again: C2 fails under it
SearchModels_SkipBad(t, name, hModel) ==
    IF hModel >= t.numModels THEN hModel
    ELSE IF t.models[hModel].name = name /\ t.models[hModel].type # MOD_BAD THEN hModel
    ELSE SearchModels_SkipBad(t, name, hModel + 1)

RECURSIVE SearchModels(_, _, _)
\* the search of the currently loaded models from hModel: the first slot
\* whose name is `name`, or t.numModels when there is none
SearchModels(t, name, hModel) ==
    IF hModel >= t.numModels THEN hModel
    ELSE IF t.models[hModel].name = name THEN hModel
    ELSE SearchModels(t, name, hModel + 1)

\* the loader whose extension matches ext, or numModelLoaders + 1
RECURSIVE FindLoader(_, _)
FindLoader(ext, i) ==
    IF i > numModelLoaders THEN i
    ELSE IF Q_stricmp_eq(ext, modelLoaders[i].ext) THEN i
    ELSE FindLoader(ext, i + 1)

\* altName without the format's extension appended: C4 as amended fails
\* under it
AltName_NoExtension(localName, ext) == localName

\* Com_sprintf(altName, sizeof(altName), "%s.%s", localName, ext)
AltName(localName, ext) ==
    LET full == localName \o << "." >> \o ext
    IN IF Len(full) >= MAX_QPATH THEN SubSeq(full, 1, MAX_QPATH - 1) ELSE full

RECURSIVE TryAllLoaders_NoSkip(_, _, _, _, _)
\* the loop without "if (i == orgLoader) continue", which invokes the loader
\* that already failed once more: C5 fails under it
TryAllLoaders_NoSkip(i, orgLoader, localName, h, ls) ==
    LET Tried(r) == IF r.h # 0 THEN r
                    ELSE TryAllLoaders_NoSkip(i + 1, orgLoader, localName, r.h, r.ls)
    IN IF i > numModelLoaders THEN [h |-> h, ls |-> ls]
       ELSE Tried(ModelLoader(i, AltName(localName, modelLoaders[i].ext), ls))

RECURSIVE TryAllLoaders(_, _, _, _, _)
\* "Try and find a suitable match using all the model formats supported":
\* the loop from loader i; h is hModel on entry
TryAllLoaders(i, orgLoader, localName, h, ls) ==
    LET Tried(r) == IF r.h # 0 THEN r
                    ELSE TryAllLoaders(i + 1, orgLoader, localName, r.h, r.ls)
    IN IF i > numModelLoaders THEN [h |-> h, ls |-> ls]
       ELSE IF i = orgLoader THEN TryAllLoaders(i + 1, orgLoader, localName, h, ls)
       ELSE Tried(ModelLoader(i, AltName(localName, modelLoaders[i].ext), ls))

NoTraffic == [reads |-> << >>, frees |-> << >>, decodes |-> << >>]

\* RE_RegisterModel(name) on table t: the handle returned, the table left
\* behind, the file-system traffic, and the slot allocated (NoSlot when none)
RE_RegisterModel(t, name) ==
    LET early == [ret |-> 0, t |-> t, io |-> NoTraffic, slot |-> NoSlot]
        found == SearchModels(t, name, 1)
        a == R_AllocModel(t)
    IN IF name = << >> THEN early
       ELSE IF Len(name) >= MAX_QPATH THEN early
       ELSE IF found < t.numModels
       THEN [early EXCEPT !.ret = IF t.models[found].type = MOD_BAD THEN 0 ELSE found]
       ELSE IF a.mod = NoSlot THEN early
       ELSE
           LET mod == [a.t.models[a.mod] EXCEPT !.name = name, !.type = MOD_BAD, !.numLods = 0]
               ls0 == [mod |-> mod, reads |-> << >>, frees |-> << >>, decodes |-> << >>]
               ext == COM_GetExtension_cpp(name)
               i == IF ext # << >> THEN FindLoader(ext, 1) ELSE numModelLoaders + 1
               loaderFound == ext # << >> /\ i <= numModelLoaders
               Result(final) ==
                   [ret |-> final.h,
                    t |-> [a.t EXCEPT !.models[a.mod] = final.ls.mod],
                    io |-> [reads |-> final.ls.reads, frees |-> final.ls.frees,
                            decodes |-> final.ls.decodes],
                    slot |-> a.mod]
               \* after the loader of the name's own extension, if there is
               \* one, returned first.h: "Something loaded", or the loop over
               \* all formats, with the extension stripped and the loader
               \* skipped when that loader failed
               Fallback(first) ==
                   IF loaderFound /\ first.h # 0
                   THEN [h |-> first.ls.mod.index, ls |-> first.ls]
                   ELSE TryAllLoaders(1, IF loaderFound THEN i ELSE 0,
                                      IF loaderFound THEN COM_StripExtension_cpp(name)
                                      ELSE name,
                                      first.h, first.ls)
           IN Result(Fallback(IF loaderFound THEN ModelLoader(i, name, ls0)
                              ELSE [h |-> found, ls |-> ls0]))

----------------------------------------------------------------------------
(* The registry as a state machine *)

f_ == << "f" >>
f_md3 == << "f", ".", "m", "d", "3" >>
f_iqm == << "f", ".", "i", "q", "m" >>
f_mdr == << "f", ".", "m", "d", "r" >>
f_x == << "f", ".", "x" >>
f_x_iqm == << "f", ".", "x", ".", "i", "q", "m" >>
f_1_md3 == << "f", "_", "1", ".", "m", "d", "3" >>
f_2_md3 == << "f", "_", "2", ".", "m", "d", "3" >>

\* names passed to RE_RegisterModel
Names == {f_, f_md3, f_iqm, f_x, << >>}

\* file names that may exist
Files == {f_iqm, f_mdr, f_md3, f_1_md3, f_2_md3, f_x_iqm}

\* what a file may hold: buffers that succeed and fail in its own loader in
\* each way the loader distinguishes, and a buffer of another format
Contents(path) ==
    CASE path = f_iqm -> {"iqm_ok", "iqm_bad", "md3_ok"}
      [] path = f_x_iqm -> {"iqm_ok", "iqm_bad"}
      [] path = f_mdr -> {"mdr_ok", "mdr_noframes", "iqm_ok"}
      [] path = f_md3 -> {"md3_ok", "md3_badversion", "md3_noframes", "md3_truncated", "mdr_ok"}
      [] path = f_1_md3 -> {"md3_ok", "md3_noframes", "mdr_ok"}
      [] OTHER -> {"md3_ok", "md3_noframes"}

\* handles passed to R_GetModelByHandle
Handles == (0 - 1)..MAX_MOD_KNOWN

Table == [numModels |-> tr_numModels, models |-> tr_models]

NoCall ==
    [op |-> "none", name |-> << >>, h |-> 0, ret |-> 0, io |-> NoTraffic, slot |-> NoSlot,
     prior |-> 0, priorFailed |-> FALSE, full |-> FALSE, kept |-> TRUE]

\* tr as R_Init leaves it before it calls R_ModelInit: zeroed.  No code reads
\* tr.models[] at or above tr.numModels, so the slots of an earlier
\* registration are not kept.
ZeroTable == [numModels |-> 0, models |-> [k \in 0..(MAX_MOD_KNOWN - 1) |-> NullModel]]

\* the table after R_ModelInit on table t
ModelInitTable(t) ==
    LET a == R_AllocModel([t EXCEPT !.numModels = 0])
    IN [a.t EXCEPT !.models[a.mod].type = MOD_BAD]

\* The renderer calls R_ModelInit from R_Init before any model is registered.
RegInit ==
    /\ \E present \in SUBSET Files :
         /\ Cardinality(present) <= MaxFiles
         /\ fs \in [present -> Buffers]
         /\ \A path \in present : fs[path] \in Contents(path)
    /\ LET t == ModelInitTable(ZeroTable)
       IN /\ tr_numModels = t.numModels
          /\ tr_models = t.models
    /\ call = NoCall
    /\ issued = [n \in Names |-> 0]
    /\ failed = {}
    /\ md3in = NULL /\ md3out = NULL /\ mdrin = NULL /\ mdrout = NULL
    /\ input = NULL /\ outcome = NULL

R_ModelInit ==
    /\ LET t == ModelInitTable(ZeroTable)
       IN /\ tr_numModels' = t.numModels
          /\ tr_models' = t.models
    /\ call' = [NoCall EXCEPT !.op = "R_ModelInit"]
    /\ issued' = [n \in Names |-> 0]
    /\ failed' = {}
    /\ UNCHANGED <<fs, md3Vars, mdrVars, funVars>>

\* a caller other than RE_RegisterModel taking a slot
AllocModel ==
    /\ LET a == R_AllocModel(Table)
       IN /\ tr_numModels' = a.t.numModels
          /\ tr_models' = a.t.models
          /\ call' = [NoCall EXCEPT !.op = "R_AllocModel",
                                    !.slot = a.mod,
                                    !.full = tr_numModels >= MAX_MOD_KNOWN,
                                    !.kept = (a.t = Table)]
    /\ UNCHANGED <<fs, issued, failed, md3Vars, mdrVars, funVars>>

RegisterModel ==
    \E name \in Names :
        \E r \in {RE_RegisterModel(Table, name)} :
           /\ tr_numModels' = r.t.numModels
           /\ tr_models' = r.t.models
           /\ call' = [op |-> "RE_RegisterModel", name |-> name, h |-> 0, ret |-> r.ret,
                       io |-> r.io, slot |-> r.slot, prior |-> issued[name],
                       priorFailed |-> name \in failed,
                       full |-> tr_numModels >= MAX_MOD_KNOWN,
                       kept |-> (r.t = Table)]
           /\ issued' = IF r.ret # 0 THEN [issued EXCEPT ![name] = r.ret] ELSE issued
           /\ failed' = IF r.ret = 0 /\ r.slot # NoSlot THEN failed \cup {name} ELSE failed
           /\ UNCHANGED <<fs, md3Vars, mdrVars, funVars>>

GetModelByHandle ==
    \E h \in Handles :
        /\ call' = [NoCall EXCEPT !.op = "R_GetModelByHandle", !.h = h,
                                  !.ret = R_GetModelByHandle(h)]
        /\ UNCHANGED <<tr_numModels, tr_models, fs, issued, failed, md3Vars, mdrVars, funVars>>

Next == R_ModelInit \/ AllocModel \/ RegisterModel \/ GetModelByHandle

Spec == RegInit /\ [][Next]_vars

----------------------------------------------------------------------------
(* Properties of the registry *)

Registered == call.op = "RE_RegisterModel"

\* the call was made with a name RE_RegisterModel accepts that is not in the
\* table yet, while the table had a free slot: the call that loads the name
Loaded ==
    /\ Registered
    /\ call.name # << >>
    /\ Len(call.name) < MAX_QPATH
    /\ call.prior = 0
    /\ ~call.priorFailed
    /\ ~call.full

\* C1: once RE_RegisterModel(name) has returned a non-zero handle since the
\* last R_ModelInit, a later RE_RegisterModel(name) returns that handle and
\* reads and decodes no file
C1_SameHandleNoDecode ==
    (Registered /\ call.prior # 0) =>
        /\ call.ret = call.prior
        /\ call.io.reads = << >>
        /\ call.io.decodes = << >>
        /\ call.slot = NoSlot

C1_Witness ==
    /\ Registered
    /\ call.prior # 0
    /\ call.ret = call.prior
    /\ tr_models[call.ret].type # MOD_BAD

AllAbsent == \A k \in 1..Len(call.io.reads) : call.io.reads[k] \notin DOMAIN fs

C3_GetModelByHandleTotal ==
    (call.op = "R_GetModelByHandle") =>
        /\ call.ret \in 0..(MAX_MOD_KNOWN - 1)
        /\ tr_models[call.ret] # NullModel
        /\ tr_models[call.ret].index = call.ret
        /\ (call.ret = 0) <=> (call.h < 1 \/ call.h >= tr_numModels)
        /\ (call.ret # 0) => call.ret = call.h

C3_Witness ==
    /\ call.op = "R_GetModelByHandle"
    /\ call.h >= tr_numModels
    /\ tr_numModels > 1
    /\ call.ret = 0

\* C4 as claimed: registering "f.x" while "f.iqm" holds a valid IQM returns a
\* non-zero handle of type MOD_IQM
C4_StrippedBaseFallback ==
    (Loaded /\ call.name = f_x /\ f_iqm \in DOMAIN fs /\ fs[f_iqm] = "iqm_ok") =>
        /\ call.ret # 0
        /\ tr_models[call.slot].type = MOD_IQM

\* C4 amended: an unrecognised extension is kept: registering "f.x" while
\* "f.x.iqm" holds a valid IQM returns a non-zero handle of type MOD_IQM, and
\* then no file without the ".x" is read
C4_AppendedExtensionFallback ==
    (Loaded /\ call.name = f_x) =>
        /\ (f_x_iqm \in DOMAIN fs /\ fs[f_x_iqm] = "iqm_ok") =>
               /\ call.ret = call.slot
               /\ tr_models[call.slot].type = MOD_IQM
        /\ \A k \in 1..Len(call.io.reads) :
               call.io.reads[k] \notin {f_iqm, f_mdr, f_md3, f_1_md3, f_2_md3}

C4_Witness ==
    /\ Loaded
    /\ call.name = f_x
    /\ f_x_iqm \in DOMAIN fs
    /\ fs[f_x_iqm] = "iqm_ok"
    /\ f_iqm \in DOMAIN fs
    /\ call.ret # 0

\* the order of preference of the formats, by extension
PreferenceOrder == << << "i", "q", "m" >>, << "m", "d", "r" >>, << "m", "d", "3" >> >>

RECURSIVE Attempts(_)
\* the formats probed by a sequence of reads, in order, the consecutive
\* reads of one format (the level-of-detail files) counted once
Attempts(reads) ==
    IF reads = << >> THEN << >>
    ELSE LET rest == Attempts(Tail(reads))
             e == COM_GetExtension_cpp(Head(reads))
         IN IF rest # << >> /\ Head(rest) = e THEN rest ELSE << e >> \o rest

\* the formats RE_RegisterModel may probe for a name, in order
ExpectedAttempts(name) ==
    LET e == COM_GetExtension_cpp(name)
    IN IF \E k \in 1..Len(PreferenceOrder) : PreferenceOrder[k] = e
       THEN << e >> \o SelectSeq(PreferenceOrder, LAMBDA x : x # e)
       ELSE PreferenceOrder

IsPrefix(a, b) == Len(a) <= Len(b) /\ SubSeq(b, 1, Len(a)) = a

TypeOfExtension(e) ==
    CASE e = << "i", "q", "m" >> -> MOD_IQM
      [] e = << "m", "d", "r" >> -> MOD_MDR
      [] OTHER -> MOD_MESH

\* the file of base name f that holds a loadable model of format e
FileLoads(e) ==
    CASE e = << "i", "q", "m" >> -> f_iqm \in DOMAIN fs /\ fs[f_iqm] = "iqm_ok"
      [] e = << "m", "d", "r" >> -> f_mdr \in DOMAIN fs /\ fs[f_mdr] = "mdr_ok"
      [] OTHER -> \E p \in {f_md3, f_1_md3, f_2_md3} : p \in DOMAIN fs /\ fs[p] = "md3_ok"

\* C5: for a name with a recognised extension or none, the formats are probed
\* in the order named format, then iqm, mdr, md3 without the named one, all
\* under the same base name; the probing stops at the first loader that
\* succeeds, whose format is the record's type, and the formats probed
\* before it did not load
C5_LoaderPreference ==
    (Loaded /\ call.name \in {f_, f_md3, f_iqm}) =>
        LET att == Attempts(call.io.reads)
            exp == ExpectedAttempts(call.name)
            rec == tr_models[call.slot]
        IN /\ att # << >>
           /\ IsPrefix(att, exp)
           /\ \A k \in 1..Len(call.io.reads) :
                 call.io.reads[k] \in {f_iqm, f_mdr, f_md3, f_1_md3, f_2_md3}
           /\ (call.ret = 0) => (att = exp /\ rec.type = MOD_BAD)
           /\ (call.ret # 0) =>
                 /\ call.ret = call.slot
                 /\ rec.type = TypeOfExtension(att[Len(att)])
                 /\ FileLoads(att[Len(att)])
           /\ \A k \in 1..Len(att) :
                 (k < Len(att) \/ call.ret = 0) =>
                     (att[k] # << "m", "d", "3" >> => ~FileLoads(att[k]))

C5_Witness ==
    /\ Loaded
    /\ call.name = f_md3
    /\ f_md3 \in DOMAIN fs
    /\ f_mdr \in DOMAIN fs
    /\ call.ret # 0
    /\ tr_models[call.slot].type = MOD_MDR
    /\ Attempts(call.io.reads) = << << "m", "d", "3" >>, << "i", "q", "m" >>, << "m", "d", "r" >> >>

\* C6: when the MD3 loader returns a handle, mod.md3[0] and every slot below
\* mod.numLods hold a successfully decoded payload
C6_LodSlotsFilled ==
    (Loaded /\ call.ret # 0 /\ tr_models[call.slot].type = MOD_MESH) =>
        \A l \in 0..(MD3_MAX_LODS - 1) :
            (l = 0 \/ l < tr_models[call.slot].numLods) =>
                /\ tr_models[call.slot].md3[l] # NoPayload
                /\ tr_models[call.slot].md3[l].decoded

\* C7: when every decoder failed and the registering call returns 0, the
\* record is MOD_BAD, has no payload attached and its dataSize is unchanged
C7_FailureLeavesNoPayload ==
    (Loaded /\ call.ret = 0) =>
        /\ tr_models[call.slot].type = MOD_BAD
        /\ tr_models[call.slot].dataSize = 0
        /\ tr_models[call.slot].modelData = NoPayload
        /\ \A l \in 0..(MD3_MAX_LODS - 1) : tr_models[call.slot].md3[l] = NoPayload

----------------------------------------------------------------------------
(* R_LoadMD3 on its own: the buffers it is handed *)

\* frames, and vertex and triangle counts of the surfaces, of the files laid out
MD3FrameCounts == {1, 2}
MD3VertCounts == {0, 1, SHADER_MAX_VERTEXES - 1, SHADER_MAX_VERTEXES}
MD3TriCounts == {0, SHADER_MAX_INDEXES \div 3 - 1, SHADER_MAX_INDEXES \div 3}
\* most surfaces in a file
MaxSurfaces == 2

\* a surface with one shader, nt triangles and nv vertexes over nfr frames,
\* its blocks laid out back to back after its header
MD3SurfaceOf(nv, nt, nfr) ==
    LET oTri == sizeof_md3Surface_t + sizeof_md3Shader_t
        oSt == oTri + nt * sizeof_md3Triangle_t
        oXyz == oSt + nv * sizeof_md3St_t
    IN [numFrames |-> nfr, numShaders |-> 1, numTriangles |-> nt, numVerts |-> nv,
        ofsShaders |-> sizeof_md3Surface_t, ofsTriangles |-> oTri, ofsSt |-> oSt,
        ofsXyzNormals |-> oXyz, ofsEnd |-> oXyz + nv * nfr * sizeof_md3XyzNormal_t]

RECURSIVE SumEnds(_)
SumEnds(ss) == IF ss = << >> THEN 0 ELSE Head(ss).ofsEnd + SumEnds(Tail(ss))

\* a well-formed file: header, nfr frames, no tags, the surfaces of shape
\* (vertexes, triangles) back to back
MD3FileOf(nfr, shape) ==
    LET ss == [k \in 1..Len(shape) |-> MD3SurfaceOf(shape[k][1], shape[k][2], nfr)]
        oSurf == sizeof_md3Header_t + nfr * sizeof_md3Frame_t
        end == oSurf + SumEnds(ss)
    IN [fileSize |-> end, version |-> MD3_VERSION, ofsEnd |-> end, numFrames |-> nfr,
        numTags |-> 0, numSurfaces |-> Len(shape), numSkins |-> 0,
        ofsFrames |-> sizeof_md3Header_t, ofsTags |-> oSurf, ofsSurfaces |-> oSurf,
        surfs |-> ss]

Corruptions ==
    {"none", "version", "endPastFile", "endZero", "endAtHeader", "trailingBytes", "noFrames",
     "manyFrames", "tagsPastEnd", "negativeVerts", "negativeTris", "negativeShaders",
     "moreSurfaceFrames", "surfaceEndPastFile", "surfaceEndZero", "blocksAbsolute"}

\* file b with one field or one layout decision changed
Corrupt(b, how) ==
    LET n == Len(b.surfs)
    IN CASE how = "version" -> [b EXCEPT !.version = MD3_VERSION - 1]
         [] how = "endPastFile" -> [b EXCEPT !.ofsEnd = b.fileSize + 1]
         [] how = "endZero" -> [b EXCEPT !.ofsEnd = 0]
         [] how = "endAtHeader" -> [b EXCEPT !.ofsEnd = sizeof_md3Header_t]
         [] how = "trailingBytes" -> [b EXCEPT !.fileSize = @ + 1]
         [] how = "noFrames" -> [b EXCEPT !.numFrames = 0]
         [] how = "manyFrames" -> [b EXCEPT !.numFrames = 1048577]
         [] how = "tagsPastEnd" -> [b EXCEPT !.numTags = 1]
         [] how = "negativeVerts" /\ n > 0 -> [b EXCEPT !.surfs[n].numVerts = 0 - 1]
         [] how = "negativeTris" /\ n > 0 -> [b EXCEPT !.surfs[n].numTriangles = 0 - 1]
         [] how = "negativeShaders" /\ n > 0 -> [b EXCEPT !.surfs[n].numShaders = 0 - 1]
         [] how = "moreSurfaceFrames" /\ n > 0 -> [b EXCEPT !.surfs[n].numFrames = @ + 1]
         [] how = "surfaceEndPastFile" /\ n > 1 -> [b EXCEPT !.surfs[1].ofsEnd = b.fileSize]
         [] how = "surfaceEndZero" /\ n > 1 -> [b EXCEPT !.surfs[1].ofsEnd = 0]
         [] how = "blocksAbsolute" /\ n > 0 ->
                [b EXCEPT !.surfs[n].ofsSt = b.fileSize - b.surfs[n].numVerts * sizeof_md3St_t,
                          !.surfs[n].ofsXyzNormals =
                              b.fileSize - b.surfs[n].numVerts * sizeof_md3XyzNormal_t]
         [] OTHER -> b

MD3Shapes ==
    UNION {[1..n -> MD3VertCounts \X MD3TriCounts] : n \in 0..MaxSurfaces}

MD3Inputs ==
    {Corrupt(MD3FileOf(nfr, shape), how) :
        nfr \in MD3FrameCounts, shape \in MD3Shapes, how \in Corruptions}

MD3Idle ==
    [done |-> FALSE, ret |-> FALSE, fault |-> FALSE, alloc |-> FALSE, size |-> 0,
     acc |-> << >>, accepted |-> 0]

\* the registry at rest, for the decoder specifications
RegistryIdle ==
    /\ tr_numModels = ModelInitTable(ZeroTable).numModels
    /\ tr_models = ModelInitTable(ZeroTable).models
    /\ fs = [path \in {} |-> NoFile]
    /\ call = NoCall
    /\ issued = [n \in Names |-> 0]
    /\ failed = {}

MD3Init ==
    /\ RegistryIdle
    /\ md3in \in MD3Inputs
    /\ md3out = MD3Idle
    /\ mdrin = NULL /\ mdrout = NULL
    /\ input = NULL /\ outcome = NULL

\* R_LoadMD3(mod, lod, md3in, md3in.fileSize, name), called as R_RegisterMD3
\* calls it: only for a buffer that holds a whole header.  Once it has touched
\* memory outside its block the return value is whatever the build produces.
LoadMD3 ==
    /\ ~md3out.done
    /\ md3in.fileSize >= sizeof_md3Header_t
    /\ \E r \in {MD3Decode(md3in)}, ret \in BOOLEAN :
            /\ r.fault \/ ret = r.ret
            /\ md3out' = [done |-> TRUE, ret |-> ret, fault |-> r.fault, alloc |-> r.alloc,
                          size |-> r.size, acc |-> r.acc, accepted |-> r.accepted]
    /\ UNCHANGED <<regVars, md3in, mdrVars, funVars>>

MD3Next == LoadMD3

SpecMD3 == MD3Init /\ [][MD3Next]_vars

\* C8: a decoded file has no surface with SHADER_MAX_VERTEXES or more
\* vertexes or SHADER_MAX_INDEXES or more indexes, and none with a negative
\* vertex count: 0 <= numVerts < SHADER_MAX_VERTEXES for every surface
C8_VertexCeiling ==
    (md3out.done /\ ~md3out.fault /\ md3out.ret) =>
        \A i \in 1..md3in.numSurfaces :
            /\ 0 <= md3in.surfs[i].numVerts
            /\ md3in.surfs[i].numVerts < SHADER_MAX_VERTEXES
            /\ md3in.surfs[i].numTriangles * 3 < SHADER_MAX_INDEXES

\* the part of C8 the decoder keeps: the upper limits, with the largest
\* accepted counts accepted
C8_UpperLimitOnly ==
    (md3out.done /\ ~md3out.fault /\ md3out.ret) =>
        \A i \in 1..md3in.numSurfaces :
            /\ md3in.surfs[i].numVerts < SHADER_MAX_VERTEXES
            /\ md3in.surfs[i].numTriangles * 3 < SHADER_MAX_INDEXES

C8_AcceptsLargest ==
    /\ md3out.done /\ ~md3out.fault /\ md3out.ret
    /\ \E i \in 1..md3in.numSurfaces : md3in.surfs[i].numVerts = SHADER_MAX_VERTEXES - 1

\* C9: every byte R_LoadMD3 reads or byte-swaps lies inside the block it
\* copied, [0, ofsEnd)
C9_AccessInsideCopy ==
    md3out.done =>
        \A k \in 1..Len(md3out.acc) : InRegion(md3out.acc[k], md3out.size)

----------------------------------------------------------------------------
(* R_LoadMDR on its own: the buffers it is handed *)

\* most frames in a well-formed file
MaxFrames == 2
MDRFrameCounts == 1..MaxFrames
MDRBoneCounts == {1, 2}
\* the weight counts of the vertexes of a surface
MDRWeightLists == {<< >>, << 1 >>, << 2, 1 >>}
MDRTriCounts == {0, 1}
\* most LODs in a file, each with one surface
MaxLODs == 1

\* a surface with the given vertex weight counts and nt triangles, laid out
\* header, vertexes, triangles
RECURSIVE VertsLength(_)
VertsLength(ws) ==
    IF ws = << >> THEN 0
    ELSE offsetof_mdrVertex_weights + Head(ws) * sizeof_mdrWeight_t + VertsLength(Tail(ws))

MDRSurfaceOf(ws, nt) ==
    LET oTri == sizeof_mdrSurface_t + VertsLength(ws)
    IN [numVerts |-> Len(ws), numTriangles |-> nt, ofsVerts |-> sizeof_mdrSurface_t,
        ofsTriangles |-> oTri, ofsEnd |-> oTri + nt * sizeof_mdrTriangle_t, weights |-> ws]

MDRLodOf(ws, nt) ==
    LET sf == MDRSurfaceOf(ws, nt)
    IN [numSurfaces |-> 1, ofsSurfaces |-> sizeof_mdrLOD_t,
        ofsEnd |-> sizeof_mdrLOD_t + sf.ofsEnd, surfs |-> << sf >>]

\* a well-formed file: header, frames (compressed or not), nl LODs, ntag tags
MDRFileOf(nfr, nb, comp, nl, ws, nt, ntag) ==
    LET frame == IF comp
                 THEN offsetof_mdrCompFrame_bones + nb * sizeof_mdrCompBone_t
                 ELSE offsetof_mdrFrame_bones + nb * sizeof_mdrBone_t
        oLod == sizeof_mdrHeader_t + nfr * frame
        lod == MDRLodOf(ws, nt)
        oTag == oLod + nl * lod.ofsEnd
        end == oTag + ntag * sizeof_mdrTag_t
    IN [fileSize |-> end, version |-> MDR_VERSION, ofsEnd |-> end, numFrames |-> nfr,
        numBones |-> nb,
        ofsFrames |-> IF comp THEN 0 - sizeof_mdrHeader_t ELSE sizeof_mdrHeader_t,
        numLODs |-> nl, ofsLODs |-> oLod, numTags |-> ntag, ofsTags |-> oTag,
        lods |-> [k \in 1..nl |-> lod]]

MDRCorruptions ==
    {"none", "version", "truncatedVersion", "truncatedHeader", "endPastFile", "noFrames",
     "negativeBones", "framesPastFile", "moreFrames", "lodsPastFile", "surfacesPastFile",
     "vertsPastFile", "trianglesPastFile", "tagsPastFile", "negativeWeights",
     "moreTags", "manyVerts", "negativeFrames", "wrappingFrames"}

MDRCorrupt(b, how) ==
    LET n == Len(b.lods)
    IN CASE how = "version" -> [b EXCEPT !.version = MDR_VERSION + 1]
         [] how = "truncatedVersion" -> [b EXCEPT !.fileSize = sizeof_ident]
         [] how = "truncatedHeader" -> [b EXCEPT !.fileSize = sizeof_mdrHeader_t - 4]
         [] how = "endPastFile" -> [b EXCEPT !.ofsEnd = b.fileSize + 1]
         [] how = "noFrames" -> [b EXCEPT !.numFrames = 0]
         [] how = "negativeBones" -> [b EXCEPT !.numBones = 0 - 1]
         [] how = "framesPastFile" ->
                [b EXCEPT !.ofsFrames = IF @ < 0 THEN 0 - b.fileSize ELSE b.fileSize]
         [] how = "moreFrames" -> [b EXCEPT !.numFrames = @ + 1]
         \* a frame count whose product with the frame size is -sizeof(header)
         \* in 32 bits, and one whose products are multiples of 2^32
         [] how = "negativeFrames" /\ b.numBones = 1 ->
                [b EXCEPT !.numFrames = 0 - 1, !.ofsEnd = 0]
         [] how = "wrappingFrames" /\ b.numBones = 1 ->
                [b EXCEPT !.numFrames = 1073741824]
         [] how = "lodsPastFile" -> [b EXCEPT !.ofsLODs = b.fileSize]
         [] how = "tagsPastFile" -> [b EXCEPT !.ofsTags = b.fileSize]
         [] how = "moreTags" -> [b EXCEPT !.numTags = @ + 1]
         [] how = "surfacesPastFile" /\ n > 0 ->
                [b EXCEPT !.lods[1].ofsSurfaces = b.fileSize]
         [] how = "vertsPastFile" /\ n > 0 ->
                [b EXCEPT !.lods[1].surfs[1].ofsVerts = b.fileSize]
         [] how = "trianglesPastFile" /\ n > 0 ->
                [b EXCEPT !.lods[1].surfs[1].ofsTriangles = b.fileSize]
         [] how = "negativeWeights" /\ n > 0 /\ b.lods[1].surfs[1].weights # << >> ->
                [b EXCEPT !.lods[1].surfs[1].weights[1] = 0 - 1]
         [] how = "manyVerts" /\ n > 0 ->
                [b EXCEPT !.lods[1].surfs[1].numVerts = SHADER_MAX_VERTEXES]
         [] OTHER -> b

MDRInputs ==
    {MDRCorrupt(MDRFileOf(nfr, nb, comp, nl, ws, nt, ntag), how) :
        nfr \in MDRFrameCounts, nb \in MDRBoneCounts, comp \in BOOLEAN, nl \in 0..MaxLODs,
        ws \in MDRWeightLists, nt \in MDRTriCounts, ntag \in {0, 1}, how \in MDRCorruptions}

MDRIdle ==
    [done |-> FALSE, ret |-> FALSE, fault |-> FALSE, wfault |-> FALSE, typed |-> FALSE,
     alloc |-> FALSE, size |-> 0, numLods |-> 0, src |-> << >>, dst |-> << >>,
     ofs |-> [frames |-> 0, lods |-> 0, tags |-> 0, end |-> 0]]

MDRInit ==
    /\ RegistryIdle
    /\ mdrin \in MDRInputs
    /\ mdrout = MDRIdle
    /\ md3in = NULL /\ md3out = NULL
    /\ input = NULL /\ outcome = NULL

\* R_LoadMDR(mod, mdrin, mdrin.fileSize, name), called as R_RegisterMDR calls
\* it: for any buffer that holds the 4-byte identifier.  After a read outside
\* the buffer the return value is whatever the build produces.
LoadMDR ==
    /\ ~mdrout.done
    /\ mdrin.fileSize >= sizeof_ident
    /\ \E r \in {MDRDecode(mdrin)}, ret \in BOOLEAN :
            /\ r.fault \/ r.wfault \/ ret = r.ret
            /\ mdrout' = [done |-> TRUE, ret |-> ret, fault |-> r.fault, wfault |-> r.wfault,
                          typed |-> r.typed, alloc |-> r.alloc, size |-> r.size,
                          numLods |-> r.numLods, src |-> r.src, dst |-> r.dst,
                          ofs |-> r.ofs]
    /\ UNCHANGED <<regVars, mdrin, md3Vars, funVars>>

MDRNext == LoadMDR

SpecMDR == MDRInit /\ [][MDRNext]_vars

\* C10: every byte R_LoadMDR reads from the file buffer lies inside
\* [0, filesize)
C10_SourceReadsInsideFile ==
    mdrout.done =>
        \A k \in 1..Len(mdrout.src) : InRegion(mdrout.src[k], mdrin.fileSize)

\* C11: every write R_LoadMDR makes to the block lies inside the size bytes it
\* allocated, and on success the offsets it stored satisfy
\* 0 < ofsFrames <= ofsLODs <= ofsTags <= ofsEnd <= size
C11_DestinationWritesInsideBlock ==
    mdrout.done =>
        /\ \A k \in 1..Len(mdrout.dst) : InRegion(mdrout.dst[k], mdrout.size)
        /\ (~mdrout.fault /\ ~mdrout.wfault /\ mdrout.ret) =>
                /\ 0 < mdrout.ofs.frames
                /\ mdrout.ofs.frames <= mdrout.ofs.lods
                /\ mdrout.ofs.lods <= mdrout.ofs.tags
                /\ mdrout.ofs.tags <= mdrout.ofs.end
                /\ mdrout.ofs.end <= mdrout.size

\* the same with the frame count kept where no product wraps: it holds
C11_NoWrapWritesInsideBlock ==
    (mdrin.numFrames \in 0..(MaxFrames + 1)) => C11_DestinationWritesInsideBlock

\* a compressed source whose frame count wraps the size arithmetic: every
\* read stayed inside the file, a frame was written past the block
C11_CompressedOverrun ==
    /\ mdrout.done /\ mdrout.wfault /\ ~mdrout.fault
    /\ mdrin.ofsFrames < 0
    /\ mdrin.numFrames > MaxFrames + 1
    /\ \A k \in 1..Len(mdrout.src) : InRegion(mdrout.src[k], mdrin.fileSize)

----------------------------------------------------------------------------
(* MC_UnCompress: a compressed bone, 12 shorts, to a 3x4 matrix *)

\* MC_BITS_X, MC_BITS_Y, MC_BITS_Z and MC_BITS_VECT: the width of every slot
MC_BITS_X == 16
MC_BITS_VECT == 16

\* the 16 bits c (0..65535) read through a const short *
AsShort(c) == IF c >= 32768 THEN c - 65536 ELSE c

\* MC_UnCompress(mat, comp): mat[i][j] before the multiplication by the
\* scale (a power of two, so the float product is exact); comp is the
\* sequence of the 12 encoded shorts, comp[k + 1] the C element k
MC_UnCompress(comp) ==
    [i \in 0..2 |->
        [j \in 0..3 |->
            IF j = 3
            THEN AsShort(comp[i + 1]) - 2 ^ (MC_BITS_X - 1)
            ELSE AsShort(comp[i * 3 + 3 + j + 1]) - 2 ^ (MC_BITS_VECT - 1)]]

\* the encoded values tried in a slot: the ends, the middle and steps between
Shorts == {0, 1, 32767, 32768, 32769, 65534, 65535} \cup {4096 * k : k \in 1..15}

\* the encoding of 0 (the bias)
MC_Zero == 32768

\* bones with one slot set and the others encoding 0
CompInputs ==
    {[k \in 1..12 |-> IF k = slot THEN c ELSE MC_Zero] : slot \in 1..12, c \in Shorts}

\* the outcome before the function is applied
FunIdle == [done |-> FALSE]

MCInit ==
    /\ RegistryIdle
    /\ md3in = NULL /\ md3out = NULL /\ mdrin = NULL /\ mdrout = NULL
    /\ input \in {[op |-> "MC_UnCompress", comp |-> c] : c \in CompInputs}
    /\ outcome = FunIdle

UnCompress ==
    /\ ~outcome.done
    /\ outcome' = [done |-> TRUE, mat |-> MC_UnCompress(input.comp)]
    /\ UNCHANGED <<regVars, md3Vars, mdrVars, input>>

MCNext == UnCompress

SpecMC == MCInit /\ [][MCNext]_vars

\* the encoded short behind mat[i][j]
CompOf(i, j) == IF j = 3 THEN input.comp[i + 1] ELSE input.comp[i * 3 + 3 + j + 1]

\* C12: every encoded value c in 0..65535 in any of the 12 slots decodes to
\* (c - 2^15) * scale, so that the integer before scaling is in
\* [-32768, 32767]
C12_DecodedRange ==
    outcome.done =>
        \A i \in 0..2, j \in 0..3 :
            /\ outcome.mat[i][j] = CompOf(i, j) - 32768
            /\ outcome.mat[i][j] \in (0 - 32768)..32767

\* the largest encodable short in a slot decodes to -32769, below the range
C12_MaximumBelowRange ==
    /\ outcome.done
    /\ \E i \in 0..2, j \in 0..3 :
            CompOf(i, j) = 65535 /\ outcome.mat[i][j] = 0 - 32769

----------------------------------------------------------------------------
(* R_LoadIQM on its own: the tables behind the header *)

\* iqm.h: vertex array types and formats
IQM_POSITION == 0
IQM_TEXCOORD == 1
IQM_NORMAL == 2
IQM_TANGENT == 3
IQM_BLENDINDEXES == 4
IQM_BLENDWEIGHTS == 5
IQM_COLOR == 6
IQM_BYTE == 0
IQM_UBYTE == 1
IQM_INT == 4
IQM_UINT == 5
IQM_FLOAT == 7
IQM_MAX_JOINTS == 128
sizeof_iqmVertexArray_t == 20
sizeof_iqmTriangle_t == 12
sizeof_iqmMesh_t == 24
sizeof_iqmJoint_t == 48
sizeof_iqmPose_t == 88
sizeof_iqmBounds_t == 32

\* An IQM file is the record h of its header fields, of fileSize (the length
\* of the buffer), of nuls (the offsets of its zero bytes inside the text)
\* and of the tables it holds at the header's offsets.  R_LoadIQM takes the
\* tables at the address of its local variable header plus the offset
\* ("&header"), not in the buffer: t is the record of the tables that lie
\* there (vertexarrays, triangles, meshes, joints, poses), whatever they are.
\*
\* The walk carries a record w:
\*   stop   "" while decoding, "reject" after return false, "fault" after a
\*          null pointer was dereferenced
\*   reads  the byte ranges of the buffer read, in order
\*   stray  the tables read at &header, outside the buffer, in order

IQM_CheckRange(header, offset, count, size) ==
    \/ count <= 0
    \/ offset <= 0
    \/ offset > header.filesize
    \/ offset + count * size < 0
    \/ offset + count * size > header.filesize

\* "std::array<int, IQM_COLOR + 1> vertexArrayFormat = {-1}": the first
\* element is -1, the others are value-initialised
vertexArrayFormat_Init == [ty \in 0..IQM_COLOR |-> IF ty = 0 THEN 0 - 1 ELSE 0]

\* vertexArrayFormat after the loop over the first n vertex arrays of va
vertexArrayFormat(va, n) ==
    [ty \in 0..IQM_COLOR |->
        LET S == {i \in 1..n : va[i].type = ty}
        IN IF S = {} THEN vertexArrayFormat_Init[ty]
           ELSE va[CHOOSE i \in S : \A k \in S : k <= i].format]

\* the range test of one vertex array by its format; TRUE when rejected
IQMArrayRangeRejected(h, a) ==
    CASE a.format \in {IQM_BYTE, IQM_UBYTE} ->
            IQM_CheckRange(h, a.offset, h.num_vertexes * a.size, 1)
      [] a.format \in {IQM_INT, IQM_UINT, IQM_FLOAT} ->
            IQM_CheckRange(h, a.offset, h.num_vertexes * a.size, 4)
      [] OTHER -> TRUE

\* the format and size a vertex array type requires; TRUE when rejected
IQMArrayTypeRejected(a) ==
    CASE a.type \in {IQM_POSITION, IQM_NORMAL} -> a.format # IQM_FLOAT \/ a.size # 3
      [] a.type = IQM_TANGENT -> a.format # IQM_FLOAT \/ a.size # 4
      [] a.type = IQM_TEXCOORD -> a.format # IQM_FLOAT \/ a.size # 2
      [] a.type = IQM_BLENDINDEXES ->
            (a.format # IQM_INT /\ a.format # IQM_UBYTE) \/ a.size # 4
      [] a.type = IQM_BLENDWEIGHTS ->
            (a.format # IQM_FLOAT /\ a.format # IQM_UBYTE) \/ a.size # 4
      [] a.type = IQM_COLOR -> a.format # IQM_UBYTE \/ a.size # 4
      [] OTHER -> FALSE

IQMArrayRejected(h, a) ==
    a.size <= 0 \/ a.size > 4 \/ IQMArrayRangeRejected(h, a) \/ IQMArrayTypeRejected(a)

\* "check for required vertex arrays"; TRUE when rejected
IQMRequiredArraysMissing(h, fmt) ==
    \/ fmt[IQM_POSITION] = 0 - 1 \/ fmt[IQM_NORMAL] = 0 - 1 \/ fmt[IQM_TEXCOORD] = 0 - 1
    \/ /\ h.num_joints # 0
       /\ fmt[IQM_BLENDINDEXES] = 0 - 1 \/ fmt[IQM_BLENDWEIGHTS] = 0 - 1

\* the limits and the bounds of one mesh; TRUE when rejected
IQMMeshRejected(h, m) ==
    \/ m.num_vertexes >= SHADER_MAX_VERTEXES
    \/ m.num_triangles * 3 >= SHADER_MAX_INDEXES
    \/ m.first_vertex >= h.num_vertexes
    \/ m.first_vertex + m.num_vertexes > h.num_vertexes
    \/ m.first_triangle >= h.num_triangles
    \/ m.first_triangle + m.num_triangles > h.num_triangles
    \/ m.name >= h.num_text
    \/ m.material >= h.num_text

\* the test of one triangle; TRUE when rejected
IQMTriangleRejected(h, tri) == \E k \in 1..3 : tri[k] > h.num_vertexes

\* the test of one joint; TRUE when rejected
IQMJointRejected(h, j) ==
    j.parent < 0 - 1 \/ j.parent >= h.num_joints \/ j.name >= h.num_text

\* the bytes a string at offset pos of the buffer covers, its terminator
\* included; without a terminator in the buffer it runs past the end
StringRange(h, pos) ==
    LET Z == {z \in h.nuls : z >= pos /\ z < h.fileSize}
    IN IF Z = {} THEN << pos, IF pos > h.fileSize THEN pos + 1 ELSE h.fileSize + 1 >>
       ELSE << pos, (CHOOSE z \in Z : \A y \in Z : z <= y) + 1 >>

\* the first index in 1..n that satisfies Bad, n + 1 when none does
FirstIndex(n, Bad(_)) ==
    IF \E i \in 1..n : Bad(i) THEN CHOOSE i \in 1..n : Bad(i) /\ \A k \in 1..(i - 1) : ~Bad(k)
    ELSE n + 1

Stray(w, table) == [w EXCEPT !.stray = Append(@, table)]

ReadFile(w, r) == [w EXCEPT !.reads = Append(@, r)]

\* the vertex arrays, triangles and meshes (if (header->num_meshes) ...)
IQMMeshStage(h, t, w) ==
    LET va == t.vertexarrays
        nva == h.num_vertexarrays
        fmt == vertexArrayFormat(va, nva)
        BadArray(i) == IQMArrayRejected(h, va[i])
        BadTriangle(i) == IQMTriangleRejected(h, t.triangles[i])
        BadMesh(i) == IQMMeshRejected(h, t.meshes[i])
        \* blendIndexes or blendWeights stays NULL and a mesh has a second
        \* vertex to compare with the first
        NullBlend(i) == /\ h.num_joints # 0
                        /\ \A k \in 1..nva : va[k].type # IQM_BLENDINDEXES
                        /\ t.meshes[i].num_vertexes >= 2
        Meshes(w2) ==
            IF IQM_CheckRange(h, h.ofs_meshes, h.num_meshes, sizeof_iqmMesh_t)
            THEN [w2 EXCEPT !.stop = "reject"]
            ELSE LET bad == FirstIndex(h.num_meshes, BadMesh)
                     null == FirstIndex(h.num_meshes, NullBlend)
                     names == [i \in 1..(IF bad > h.num_meshes THEN h.num_meshes ELSE bad) |->
                                  StringRange(h, h.ofs_text + t.meshes[i].name)]
                     MeshNames(w3) ==
                         [w3 EXCEPT !.reads =
                             @ \o SelectSeq(names, LAMBDA r : r[1] < h.ofs_text + h.num_text)]
                 IN [MeshNames(Stray(w2, "meshes")) EXCEPT
                        !.stop = IF null < bad THEN "fault"
                                 ELSE IF bad <= h.num_meshes THEN "reject" ELSE ""]
        Triangles(w1) ==
            IF IQM_CheckRange(h, h.ofs_triangles, h.num_triangles, sizeof_iqmTriangle_t)
            THEN [w1 EXCEPT !.stop = "reject"]
            ELSE IF \E i \in 1..h.num_triangles : BadTriangle(i)
            THEN [Stray(w1, "triangles") EXCEPT !.stop = "reject"]
            ELSE Meshes(Stray(w1, "triangles"))
        \* the 4-byte values swapped in place, up to the first array rejected
        Swapped(w0) ==
            LET last == FirstIndex(nva, BadArray)
                idx == SelectSeq([i \in 1..nva |-> i],
                                 LAMBDA i : /\ i <= last
                                            /\ va[i].size \in 1..4
                                            /\ va[i].format \in {IQM_INT, IQM_UINT, IQM_FLOAT}
                                            /\ ~IQMArrayRangeRejected(h, va[i]))
            IN [w0 EXCEPT !.reads =
                   @ \o [k \in 1..Len(idx) |->
                            Range(va[idx[k]].offset, 4 * h.num_vertexes * va[idx[k]].size)]]
        Arrays(w0) ==
            IF \E i \in 1..nva : BadArray(i)
            THEN [w0 EXCEPT !.stop = "reject"]
            ELSE IF IQMRequiredArraysMissing(h, fmt)
            THEN [w0 EXCEPT !.stop = "reject"]
            ELSE Triangles(w0)
    IN IF w.stop # "" \/ h.num_meshes = 0 THEN w
       ELSE IF IQM_CheckRange(h, h.ofs_vertexarrays, nva, sizeof_iqmVertexArray_t)
       THEN [w EXCEPT !.stop = "reject"]
       ELSE Arrays(Swapped(Stray(w, "vertexarrays")))

\* the joints, poses and bounds
IQMJointStage(h, t, w) ==
    LET BadJoint(i) == IQMJointRejected(h, t.joints[i])
        Bounds(w2) ==
            IF w2.stop # "" \/ h.ofs_bounds = 0 THEN w2
            ELSE IF IQM_CheckRange(h, h.ofs_bounds, h.num_frames, sizeof_iqmBounds_t)
            THEN [w2 EXCEPT !.stop = "reject"]
            ELSE Stray(w2, "bounds")
        Poses(w1) ==
            IF w1.stop # "" \/ h.num_poses = 0 THEN w1
            ELSE IF IQM_CheckRange(h, h.ofs_poses, h.num_poses, sizeof_iqmPose_t)
            THEN [w1 EXCEPT !.stop = "reject"]
            ELSE Stray(w1, "poses")
        Joints(w0) ==
            IF h.num_joints = 0 THEN w0
            ELSE IF IQM_CheckRange(h, h.ofs_joints, h.num_joints, sizeof_iqmJoint_t)
            THEN [w0 EXCEPT !.stop = "reject"]
            ELSE IF \E i \in 1..h.num_joints : BadJoint(i)
            THEN [Stray(w0, "joints") EXCEPT !.stop = "reject"]
            ELSE Stray(Stray(w0, "joints"), "text")
    IN IF w.stop # "" THEN w
       ELSE IF h.num_poses # h.num_joints /\ h.num_poses # 0
       THEN [w EXCEPT !.stop = "reject"]
       ELSE Bounds(Poses(Joints(w)))

\* the 16-bit values the pose loop takes from framedata
RECURSIVE SumChannels(_, _)
SumChannels(poses, n) ==
    IF n = 0 THEN 0 ELSE poses[n].channels + SumChannels(poses, n - 1)

\* after the allocation: surfaces, triangles, influences, joints, frames
IQMCopyStage(h, t, w) ==
    LET nullBlend == /\ h.num_joints # 0 /\ h.num_meshes # 0
                     /\ \/ \A k \in 1..h.num_vertexarrays :
                                t.vertexarrays[k].type # IQM_BLENDINDEXES
                        \/ \A k \in 1..h.num_vertexarrays :
                                t.vertexarrays[k].type # IQM_BLENDWEIGHTS
                     /\ \E i \in 1..h.num_meshes : t.meshes[i].num_vertexes >= 1
        shorts == h.num_frames * SumChannels(t.poses, h.num_poses)
        Frames(w1) ==
            IF w1.stop # "" \/ h.num_poses = 0 \/ shorts = 0 THEN w1
            ELSE ReadFile(w1, Range(h.ofs_frames, 2 * shorts))
    IN IF w.stop # "" THEN w
       ELSE IF nullBlend THEN [w EXCEPT !.stop = "fault"]
       ELSE Frames(w)

\* What R_LoadIQM does with the file h when the tables t lie at &header:
\*   ret        its return value (meaningless when fault)
\*   fault      it dereferenced a null pointer
\*   reads, stray  as in the walk
\*   triangles, surfaces, jointParents  what it stored in iqmData on success
IQMLoad(h, t) ==
    LET none == [ret |-> FALSE, fault |-> FALSE, reads |-> << >>, stray |-> << >>,
                 triangles |-> << >>, surfaces |-> << >>, jointParents |-> << >>]
        hdr == Range(0, sizeof_iqmHeader_t)
        Result(w) ==
            IF w.stop = ""
            THEN [ret |-> TRUE, fault |-> FALSE, reads |-> w.reads, stray |-> w.stray,
                  triangles |-> IF h.num_meshes = 0 THEN << >>
                                ELSE SubSeq(t.triangles, 1, h.num_triangles),
                  surfaces |-> SubSeq(t.meshes, 1, h.num_meshes),
                  jointParents |-> [i \in 1..h.num_joints |-> t.joints[i].parent]]
            ELSE [none EXCEPT !.fault = w.stop = "fault", !.reads = w.reads,
                              !.stray = w.stray]
    IN IF h.fileSize < sizeof_iqmHeader_t THEN none
       ELSE IF h.magic # IQM_MAGIC THEN [none EXCEPT !.reads = << Range(0, 16) >>]
       ELSE IF h.version # IQM_VERSION THEN [none EXCEPT !.reads = << hdr >>]
       ELSE IF h.filesize > h.fileSize \/ h.filesize > IQM_MAX_FILESIZE
       THEN [none EXCEPT !.reads = << hdr >>]
       ELSE IF h.num_joints > IQM_MAX_JOINTS THEN [none EXCEPT !.reads = << hdr >>]
       ELSE Result(IQMCopyStage(h, t, IQMJointStage(h, t, IQMMeshStage(h, t,
                [stop |-> "", reads |-> << hdr >>, stray |-> << >>]))))

----------------------------------------------------------------------------
(* R_LoadIQM on its own: the files and the tables it is handed *)

\* most joints in a file
MaxJoints == 2

IQMArray(type, format, size, offset) ==
    [type |-> type, format |-> format, size |-> size, offset |-> offset]

\* a file with nj joints and nf frames: two vertexes, one triangle, one mesh,
\* five vertex arrays, laid out header, text, tables; how names what is wrong
\* with it.  An array that is left out gives its place to a colour array.
IQMFileOf(nj, nf, how) ==
    LET np == IF nf > 0 THEN nj ELSE 0
        oVA == 132
        oTri == 320
        oMesh == oTri + sizeof_iqmTriangle_t
        oJoint == oMesh + sizeof_iqmMesh_t
        oPose == oJoint + nj * sizeof_iqmJoint_t
        oFrame == oPose + np * sizeof_iqmPose_t
        oBounds == oFrame + 2 * nf * np
        end == oBounds + nf * sizeof_iqmBounds_t
        color == IQMArray(IQM_COLOR, IQM_UBYTE, 4, 312)
        arrays == << IQMArray(IQM_POSITION, IQM_FLOAT, 3, 232),
                     IQMArray(IQM_TEXCOORD, IQM_FLOAT, 2, 256),
                     IQMArray(IQM_NORMAL, IQM_FLOAT, 3, 272),
                     IQMArray(IQM_BLENDINDEXES, IQM_UBYTE, 4, 296),
                     IQMArray(IQM_BLENDWEIGHTS, IQM_UBYTE, 4, 304) >>
        left == CASE how = "noPosition" -> 1 [] how = "noTexcoord" -> 2
                  [] how = "noNormal" -> 3 [] how = "noBlendIndexes" -> 4
                  [] how = "noBlendWeights" -> 5 [] OTHER -> 0
        mesh == [name |-> 1, material |-> 1, first_vertex |-> 0,
                 num_vertexes |-> IF how = "meshVertexesPast" THEN 3 ELSE 2,
                 first_triangle |-> 0,
                 num_triangles |-> IF how = "meshTrianglesPast" THEN 2 ELSE 1]
        parent(i) == CASE how = "parentSelf" /\ i = 1 -> 0
                       [] how = "parentForward" /\ i = 1 -> 1
                       [] how = "parentPast" /\ i = nj -> nj
                       [] OTHER -> i - 2
    IN [fileSize |-> IF how = "shortBuffer" THEN sizeof_iqmHeader_t - 4 ELSE end,
        magic |-> IF how = "magic" THEN MD3_IDENT ELSE IQM_MAGIC,
        version |-> IF how = "version" THEN IQM_VERSION + 1 ELSE IQM_VERSION,
        filesize |-> CASE how = "filesizePastBuffer" -> end + 1
                       [] how = "tablesPastFilesize" -> oVA
                       [] OTHER -> end,
        num_text |-> 8,
        ofs_text |-> IF how = "textPastFile" THEN end ELSE sizeof_iqmHeader_t,
        nuls |-> IF how = "noTerminator" THEN {} ELSE {124, 126, 129, 131},
        num_meshes |-> IF how = "noMeshes" THEN 0 ELSE 1, ofs_meshes |-> oMesh,
        num_vertexarrays |-> 5, num_vertexes |-> 2, ofs_vertexarrays |-> oVA,
        num_triangles |-> 1, ofs_triangles |-> oTri,
        num_joints |-> IF how = "manyJoints" THEN IQM_MAX_JOINTS + 1 ELSE nj,
        ofs_joints |-> oJoint,
        num_poses |-> IF how = "posesNotJoints" THEN nj + 1 ELSE np, ofs_poses |-> oPose,
        num_frames |-> nf,
        ofs_frames |-> IF how = "framesPastFile" THEN end ELSE oFrame,
        ofs_bounds |-> IF nf > 0 THEN oBounds ELSE 0,
        vertexarrays |-> [i \in 1..5 |-> IF i = left THEN color ELSE arrays[i]],
        triangles |-> << << 0, 1, CASE how = "triangleAtCount" -> 2
                                    [] how = "trianglePastCount" -> 3
                                    [] OTHER -> 1 >> >>,
        meshes |-> << mesh >>,
        joints |-> [i \in 1..nj |-> [name |-> 3, parent |-> parent(i)]],
        poses |-> [i \in 1..(nj + 1) |-> [channels |-> 1]]]

\* what can be wrong with the tables, and with the rest of the file
IQMTableFaults ==
    {"none", "noPosition", "noTexcoord", "noNormal", "noBlendIndexes", "noBlendWeights",
     "triangleAtCount", "trianglePastCount", "meshVertexesPast", "meshTrianglesPast",
     "parentSelf", "parentForward", "parentPast"}

IQMFileFaults ==
    {"shortBuffer", "magic", "version", "filesizePastBuffer", "tablesPastFilesize",
     "textPastFile", "noTerminator", "noMeshes", "manyJoints", "posesNotJoints",
     "framesPastFile"}

\* the tables of a file
IQMTables(h) ==
    [vertexarrays |-> h.vertexarrays, triangles |-> h.triangles, meshes |-> h.meshes,
     joints |-> h.joints, poses |-> h.poses]

\* a file h and the tables t that lie at &header: those of any file of the
\* same shape
IQMInputs ==
    {[op |-> "R_LoadIQM", h |-> IQMFileOf(nj, nf, how),
      t |-> IQMTables(IQMFileOf(nj, nf, seen))] :
        nj \in {0, MaxJoints}, nf \in {0, 1},
        how \in IQMTableFaults \cup IQMFileFaults, seen \in IQMTableFaults}

IQMInit ==
    /\ RegistryIdle
    /\ md3in = NULL /\ md3out = NULL /\ mdrin = NULL /\ mdrout = NULL
    /\ input \in IQMInputs
    /\ outcome = FunIdle

\* R_LoadIQM(mod, buffer, filesize, name).  After a null pointer was
\* dereferenced the return value is whatever the build produces.
LoadIQM ==
    /\ ~outcome.done
    /\ \E r \in {IQMLoad(input.h, input.t)}, ret \in BOOLEAN :
            /\ r.fault \/ ret = r.ret
            /\ outcome' = [r EXCEPT !.ret = ret] @@ [done |-> TRUE]
    /\ UNCHANGED <<regVars, md3Vars, mdrVars, input>>

IQMNext == LoadIQM

SpecIQM == IQMInit /\ [][IQMNext]_vars

----------------------------------------------------------------------------
(* Claims about R_LoadIQM *)

\* the vertex-array table of the file h holds no array of type ty
IQMLacks(h, ty) == \A k \in 1..h.num_vertexarrays : h.vertexarrays[k].type # ty

\* the file's own tables are the ones that lie at &header
IQMTablesAreTheFiles == input.t = IQMTables(input.h)

\* C13: R_LoadIQM returns false for every file with at least one mesh whose
\* vertex-array table lacks a position, normal or texcoord array, and, when
\* the file has joints, for every file that lacks a blend-index or
\* blend-weight array.
C13_RequiredChannels ==
    outcome.done /\ input.h.num_meshes >= 1
    /\ ( \/ IQMLacks(input.h, IQM_POSITION)
         \/ IQMLacks(input.h, IQM_NORMAL)
         \/ IQMLacks(input.h, IQM_TEXCOORD)
         \/ /\ input.h.num_joints > 0
            /\ IQMLacks(input.h, IQM_BLENDINDEXES) \/ IQMLacks(input.h, IQM_BLENDWEIGHTS) )
    => outcome.ret = FALSE

\* a file without a normal array, read as it is, is loaded
C13_MissingNormalLoaded ==
    /\ outcome.done /\ outcome.ret /\ ~outcome.fault
    /\ IQMTablesAreTheFiles
    /\ input.h.num_meshes >= 1
    /\ IQMLacks(input.h, IQM_NORMAL)

\* a file with joints and without a blend-index array, read as it is, makes
\* the loader dereference the null blendIndexes
C13_MissingBlendIndexesFault ==
    /\ outcome.done /\ outcome.fault
    /\ IQMTablesAreTheFiles
    /\ input.h.num_joints > 0
    /\ IQMLacks(input.h, IQM_BLENDINDEXES)

\* a file without a position array, read as it is, is rejected
C13_MissingPositionRejected ==
    outcome.done /\ IQMTablesAreTheFiles /\ input.h.num_meshes >= 1
    /\ IQMLacks(input.h, IQM_POSITION)
    => outcome.ret = FALSE /\ ~outcome.fault

\* the triangle tri indexes only vertexes below n
IQMTriangleInside(tri, n) == \A k \in 1..3 : tri[k] >= 0 /\ tri[k] < n

\* the mesh m lies inside the vertex and triangle counts of h
IQMMeshInside(h, m) ==
    /\ m.first_vertex + m.num_vertexes <= h.num_vertexes
    /\ m.first_triangle + m.num_triangles <= h.num_triangles

\* C14: after a successful R_LoadIQM every triangle vertex index t satisfies
\* 0 <= t < num_vertexes and every mesh satisfies first_vertex + num_vertexes
\* <= num_vertexes and first_triangle + num_triangles <= num_triangles; a
\* file violating any of these is rejected.
C14_IndexValidity ==
    outcome.done =>
        /\ outcome.ret /\ ~outcome.fault =>
              /\ \A i \in 1..Len(outcome.triangles) :
                    IQMTriangleInside(outcome.triangles[i], input.h.num_vertexes)
              /\ \A i \in 1..Len(outcome.surfaces) :
                    IQMMeshInside(input.h, outcome.surfaces[i])
        /\ ( /\ input.h.num_meshes >= 1
             /\ \/ \E i \in 1..input.h.num_triangles :
                      ~IQMTriangleInside(input.h.triangles[i], input.h.num_vertexes)
                \/ \E i \in 1..input.h.num_meshes :
                      ~IQMMeshInside(input.h, input.h.meshes[i]) )
           => outcome.ret = FALSE

\* a file with a triangle index equal to num_vertexes, read as it is, is
\* loaded and the index is stored
C14_IndexAtCountLoaded ==
    /\ outcome.done /\ outcome.ret /\ ~outcome.fault
    /\ IQMTablesAreTheFiles
    /\ \E i \in 1..Len(outcome.triangles) :
          \E k \in 1..3 : outcome.triangles[i][k] = input.h.num_vertexes

\* what the tests do establish: after a successful load no stored index is
\* above num_vertexes and every stored mesh lies inside the counts
C14_IndexAtMostCount ==
    outcome.done /\ outcome.ret /\ ~outcome.fault =>
        /\ \A i \in 1..Len(outcome.triangles) :
              \A k \in 1..3 : outcome.triangles[i][k] <= input.h.num_vertexes
        /\ \A i \in 1..Len(outcome.surfaces) : IQMMeshInside(input.h, outcome.surfaces[i])

\* the parent p of the joint with index i (from 0) is none or an earlier joint
IQMParentEarlier(p, i) == p = 0 - 1 \/ (p >= 0 /\ p < i)

\* C15: after a successful R_LoadIQM every joint i has parent[i] = -1 or
\* 0 <= parent[i] < i, so that the bind-matrix pass and ComputePoseMats read
\* a parent's matrix only after computing it; a file with a parent index >=
\* its own joint index is rejected.
C15_JointOrdering ==
    outcome.done =>
        /\ outcome.ret /\ ~outcome.fault =>
              \A i \in 1..Len(outcome.jointParents) :
                  IQMParentEarlier(outcome.jointParents[i], i - 1)
        /\ (\E i \in 1..Len(input.h.joints) : input.h.joints[i].parent >= i - 1)
           => outcome.ret = FALSE

\* a file whose joint 0 has joint 1 as its parent, read as it is, is loaded:
\* the bind-matrix pass reads the matrix of joint 1 before computing it
C15_ForwardParentLoaded ==
    /\ outcome.done /\ outcome.ret /\ ~outcome.fault
    /\ IQMTablesAreTheFiles
    /\ Len(outcome.jointParents) >= 2
    /\ outcome.jointParents[1] = 1

\* what the test does establish: after a successful load every parent is -1
\* or the index of a joint of the file
C15_ParentBelowCount ==
    outcome.done /\ outcome.ret /\ ~outcome.fault =>
        \A i \in 1..Len(outcome.jointParents) :
            outcome.jointParents[i] >= 0 - 1 /\ outcome.jointParents[i] < input.h.num_joints

\* the k-th read of the buffer lies inside the file: the header inside the
\* buffer, everything after it inside header.filesize
IQMReadInside(k) ==
    InRegion(outcome.reads[k], IF k = 1 THEN input.h.fileSize ELSE input.h.filesize)

\* C16: for every input R_LoadIQM reads only bytes inside [0, header.filesize)
\* with filesize <= the buffer length: the text, the frame data and every
\* table are validated against the file size before being read, else the
\* load is rejected.
C16_FileRangeSafety ==
    outcome.done =>
        /\ outcome.stray = << >>
        /\ \A k \in 1..Len(outcome.reads) : IQMReadInside(k)

\* a mesh name is read where ofs_text points, past the end of the buffer
C16_TextReadPastFile ==
    /\ outcome.done
    /\ input.h.ofs_text >= input.h.fileSize
    /\ \E k \in 2..Len(outcome.reads) :
          /\ outcome.reads[k][1] = input.h.ofs_text + 1
          /\ ~IQMReadInside(k)

\* the frame data is read where ofs_frames points, past the end of the buffer
C16_FramesReadPastFile ==
    /\ outcome.done /\ outcome.ret /\ ~outcome.fault
    /\ \E k \in 2..Len(outcome.reads) :
          /\ outcome.reads[k][1] = input.h.ofs_frames
          /\ ~IQMReadInside(k)

\* a file that is sound in every respect: its tables are read at &header,
\* outside the buffer
C16_TablesReadOutsideBuffer ==
    /\ outcome.done /\ outcome.ret /\ ~outcome.fault
    /\ input.h = IQMFileOf(MaxJoints, 1, "none")
    /\ outcome.stray # << >>

\* what IQM_CheckRange does establish: the vertex-array data swapped in
\* place lies inside header.filesize
C16_SwappedArraysInside ==
    outcome.done =>
        \A k \in 2..Len(outcome.reads) :
            outcome.reads[k][1] \in {a.offset : a \in {input.t.vertexarrays[i] : i \in 1..5}}
            => IQMReadInside(k)

----------------------------------------------------------------------------
(* R_LerpTag, R_GetTag, R_GetAnimTag, R_IQMLerpTag *)

\* frac is given in units of 1 / FracUnit: frac = FracUnit stands for 1.0f
FracUnit == 2

\* A tag is the record [origin, axis].  Coordinates of decoded models are
\* integers; an origin R_LerpTag returns is given in units of 1 / FracUnit;
\* an axis it returns is given by its direction, the shortest integer vector
\* along it (the zero vector for an axis of length 0).
vec3_origin == << 0, 0, 0 >>
axisDefault == << << 1, 0, 0 >>, << 0, 1, 0 >>, << 0, 0, 1 >> >>
axisTurned == << << 0, 1, 0 >>, << 0 - 1, 0, 0 >>, << 0, 0, 1 >> >>

\* AxisClear(tag->axis); VectorClear(tag->origin)
ClearedTag == [origin |-> vec3_origin, axis |-> axisDefault]

RECURSIVE GCD(_, _)
GCD(a, b) == IF b = 0 THEN a ELSE GCD(b, a % b)

Magnitude(x) == IF x < 0 THEN 0 - x ELSE x

\* VectorNormalize(v): v scaled to length 1 unless its length is 0
VectorNormalize(v) ==
    IF v = vec3_origin THEN v
    ELSE LET g == GCD(GCD(Magnitude(v[1]), Magnitude(v[2])), Magnitude(v[3]))
         IN [i \in 1..3 |-> v[i] \div g]

\* a 3x4 matrix with the axes as columns and the origin as last column
BoneMatrix(axis, origin) ==
    [k \in 1..3 |-> << axis[1][k], axis[2][k], axis[3][k], origin[k] >>]

\* dest.axis[j][k] = matrix[k][j]; dest.origin[k] = matrix[k][3]
TagOfMatrix(matrix) ==
    [origin |-> [k \in 1..3 |-> matrix[k][4]],
     axis |-> [j \in 1..3 |-> [k \in 1..3 |-> matrix[k][j]]]]

\* the decoded model behind a payload pointer: a mesh-per-frame model with
\* two tags in each frame, a bone-hierarchy model with two bones and one
\* tag on bone 1, a skinned-skeletal model with one joint
TagModelData(id) ==
    CASE id = "md3_ok" ->
            [numFrames |-> MaxFrames, numTags |-> 2,
             tags |-> [k \in 0..(2 * MaxFrames - 1) |->
                          [name |-> IF k % 2 = 0 THEN "tag_a" ELSE "tag_b",
                           origin |-> << (k \div 2) + 1, k % 2, 0 >>,
                           axis |-> IF (k \div 2) % 2 = 0 THEN axisDefault ELSE axisTurned]]]
      [] id = "mdr_ok" ->
            [numFrames |-> MaxFrames, numBones |-> 2, numTags |-> 1,
             tags |-> [i \in 0..0 |-> [name |-> "tag_a", boneIndex |-> 1]],
             frames |-> [f \in 0..(MaxFrames - 1) |->
                            [bones |-> [b \in 0..1 |->
                                BoneMatrix(IF f % 2 = 0 THEN axisDefault ELSE axisTurned,
                                           << f + 1, b, 0 >>)]]]]
      [] OTHER ->
            [num_joints |-> 1, num_poses |-> 0, jointNames |-> << "tag_a" >>]

\* What lies outside the model data, where the lookups read it: the md3Tag_t
\* before the tag block, the bone matrix before the frames, the iqmData_t
\* seen at the address of model->modelData and the joint matrices computed
\* from it.
TagStrays ==
    {[tag |-> [name |-> n, origin |-> << 7, 7, 7 >>, axis |-> axisTurned],
      bone |-> BoneMatrix(axisTurned, << 7, 7, 7 >>),
      iqm |-> d,
      jointMats |-> << BoneMatrix(axisTurned, << 7, 7, 7 >>) >>] :
        n \in {"tag_x", ""},
        d \in {[num_joints |-> 0, num_poses |-> 0, jointNames |-> << >>],
               [num_joints |-> 1, num_poses |-> 0, jointNames |-> << "tag_x" >>],
               [num_joints |-> 1, num_poses |-> 0, jointNames |-> << "tag_a" >>]}}

NoTag == [found |-> FALSE, tag |-> ClearedTag, frames |-> << >>]

\* R_GetTag(mod, frame, tagName): the tag found (or NULL) and the frame
\* whose tag block it read
R_GetTag(mod, frame, tagName, mem) ==
    LET fr == IF frame >= mod.numFrames THEN mod.numFrames - 1 ELSE frame
        At(i) == LET k == fr * mod.numTags + i
                 IN IF k \in DOMAIN mod.tags THEN mod.tags[k] ELSE mem.tag
        S == {i \in 0..(mod.numTags - 1) : At(i).name = tagName}
    IN IF S = {} THEN [NoTag EXCEPT !.frames = << fr >>]
       ELSE LET t == At(CHOOSE i \in S : \A k \in S : i <= k)
            IN [found |-> TRUE, tag |-> [origin |-> t.origin, axis |-> t.axis],
                frames |-> << fr >>]

\* R_GetAnimTag(mod, framenum, tagName, dest)
R_GetAnimTag(mod, framenum, tagName, mem) ==
    LET fr == IF framenum >= mod.numFrames THEN mod.numFrames - 1 ELSE framenum
        S == {i \in 0..(mod.numTags - 1) : mod.tags[i].name = tagName}
    IN IF S = {} THEN NoTag
       ELSE LET tag == mod.tags[CHOOSE i \in S : \A k \in S : i <= k]
                matrix == IF fr \in DOMAIN mod.frames
                          THEN mod.frames[fr].bones[tag.boneIndex] ELSE mem.bone
            IN [found |-> TRUE, tag |-> TagOfMatrix(matrix), frames |-> << fr >>]

\* R_LerpTag without interpolation (the start value alone): C19's blend
\* fails under it
LerpValue_StartOnly(start, end, frac) == start * FracUnit

\* start->x * backLerp + end->x * frontLerp, in units of 1 / FracUnit
LerpValue(start, end, frac) == start * (FracUnit - frac) + end * frac

\* R_IQMLerpTag(tag, data, startFrame, endFrame, frac, tagName), jointMats
\* being what ComputeJointMats made of data
R_IQMLerpTag(data, jointMats, tagName) ==
    LET S == {j \in 1..data.num_joints : data.jointNames[j] = tagName}
    IN IF S = {} THEN [ret |-> FALSE, tag |-> ClearedTag]
       ELSE LET t == TagOfMatrix(jointMats[CHOOSE j \in S : \A k \in S : j <= k])
            IN [ret |-> TRUE,
                tag |-> [origin |-> [i \in 1..3 |-> FracUnit * t.origin[i]],
                         axis |-> [a \in 1..3 |-> VectorNormalize(t.axis[a])]]]

\* R_LerpTag(tag, handle, startFrame, endFrame, frac, tagName):
\*   ret, tag  the return value and *tag
\*   frames    the frames whose data the lookups read, in order
\*   misread   model->modelData itself was read as an iqmData_t
R_LerpTag(handle, startFrame, endFrame, frac, tagName, mem) ==
    LET model == tr_models[R_GetModelByHandle(handle)]
        Blend(start, end) ==
            IF ~start.found \/ ~end.found
            THEN [ret |-> FALSE, tag |-> ClearedTag,
                  frames |-> start.frames \o end.frames, misread |-> FALSE]
            ELSE [ret |-> TRUE,
                  tag |-> [origin |-> [i \in 1..3 |->
                                          LerpValue(start.tag.origin[i], end.tag.origin[i], frac)],
                           axis |-> [a \in 1..3 |-> VectorNormalize([i \in 1..3 |->
                                          LerpValue(start.tag.axis[a][i], end.tag.axis[a][i],
                                                    frac)])]],
                  frames |-> start.frames \o end.frames, misread |-> FALSE]
        Seen(r) == [ret |-> r.ret, tag |-> r.tag, frames |-> << >>, misread |-> TRUE]
    IN IF model.md3[0] = NoPayload
       THEN IF model.type = MOD_MDR
            THEN Blend(R_GetAnimTag(TagModelData(model.modelData.data), startFrame, tagName, mem),
                       R_GetAnimTag(TagModelData(model.modelData.data), endFrame, tagName, mem))
            ELSE IF model.type = MOD_IQM
            THEN Seen(R_IQMLerpTag(mem.iqm, mem.jointMats, tagName))
            ELSE Blend(NoTag, NoTag)
       ELSE Blend(R_GetTag(TagModelData(model.md3[0].data), startFrame, tagName, mem),
                  R_GetTag(TagModelData(model.md3[0].data), endFrame, tagName, mem))

\* a registered model of each kind, and a record whose load failed
TagModel(kind, index) ==
    CASE kind = MOD_MESH ->
            [HunkModel EXCEPT !.type = MOD_MESH, !.index = index, !.numLods = 1,
                              !.md3[0] = [data |-> "md3_ok", decoded |-> TRUE]]
      [] kind = MOD_MDR ->
            [HunkModel EXCEPT !.type = MOD_MDR, !.index = index, !.numLods = 1,
                              !.modelData = [data |-> "mdr_ok", decoded |-> TRUE]]
      [] kind = MOD_IQM ->
            [HunkModel EXCEPT !.type = MOD_IQM, !.index = index, !.numLods = 1,
                              !.modelData = [data |-> "iqm_ok", decoded |-> TRUE]]
      [] OTHER -> [HunkModel EXCEPT !.type = kind, !.index = index]

TagInputs ==
    [op : {"R_LerpTag"}, handle : (0 - 1)..MAX_MOD_KNOWN,
     startFrame : (0 - 1)..MaxFrames, endFrame : (0 - 1)..MaxFrames,
     frac : 0..FracUnit, tagName : {"tag_a", "tag_x"}]

\* the table holds the default model and models of one kind
TagInit ==
    /\ tr_numModels \in {1, MAX_MOD_KNOWN}
    /\ \E kind \in {MOD_BAD, MOD_BRUSH, MOD_MESH, MOD_MDR, MOD_IQM} :
          tr_models = [k \in 0..(MAX_MOD_KNOWN - 1) |->
                          IF k = 0 THEN ModelInitTable(ZeroTable).models[0]
                          ELSE IF k < tr_numModels THEN TagModel(kind, k) ELSE NullModel]
    /\ fs = [path \in {} |-> NoFile]
    /\ call = NoCall
    /\ issued = [n \in Names |-> 0]
    /\ failed = {}
    /\ md3in = NULL /\ md3out = NULL /\ mdrin = NULL /\ mdrout = NULL
    /\ input \in TagInputs
    /\ outcome = FunIdle

LerpTag ==
    /\ ~outcome.done
    /\ \E mem \in TagStrays :
          outcome' = R_LerpTag(input.handle, input.startFrame, input.endFrame,
                               input.frac, input.tagName, mem) @@ [done |-> TRUE]
    /\ UNCHANGED <<regVars, md3Vars, mdrVars, input>>

TagNext == LerpTag

SpecTag == TagInit /\ [][TagNext]_vars

----------------------------------------------------------------------------
(* Claims about the tag lookups *)

\* the model the handle of the call resolves to
TagResolved == tr_models[R_GetModelByHandle(input.handle)]

\* the tag names of the model the call resolves to
TagNamesResolved ==
    LET m == TagResolved
    IN IF m.md3[0] # NoPayload
       THEN LET d == TagModelData(m.md3[0].data) IN {d.tags[k].name : k \in DOMAIN d.tags}
       ELSE IF m.type = MOD_MDR
       THEN LET d == TagModelData(m.modelData.data) IN {d.tags[k].name : k \in DOMAIN d.tags}
       ELSE IF m.type = MOD_IQM
       THEN LET d == TagModelData(m.modelData.data)
            IN {d.jointNames[j] : j \in 1..d.num_joints}
       ELSE {}

\* C17: for every handle (0, out of range and invalid records included), any
\* frames and fraction, and any tag name not present in the resolved model,
\* R_LerpTag returns false and sets the output to the identity axes with
\* zero origin.
C17_AbsentTagIsCleared ==
    outcome.done /\ input.tagName \notin TagNamesResolved
    => outcome.ret = FALSE /\ outcome.tag = ClearedTag

\* a mesh-per-frame model, a tag name it does not have and negative frames:
\* the name is found in what lies before the tag block
C17_AbsentTagFoundBeforeBlock ==
    /\ outcome.done /\ outcome.ret
    /\ TagResolved.type = MOD_MESH
    /\ input.tagName \notin TagNamesResolved
    /\ input.startFrame < 0 /\ input.endFrame < 0

\* a skinned-skeletal model and a tag name it does not have: the name is
\* found in what is read at the address of model->modelData
C17_AbsentJointFoundInMisread ==
    /\ outcome.done /\ outcome.ret /\ outcome.misread
    /\ TagResolved.type = MOD_IQM
    /\ input.tagName \notin TagNamesResolved

\* what does hold: with no negative frame and no skinned-skeletal model an
\* absent tag gives false and the cleared output
C17_AbsentTagInsideIsCleared ==
    outcome.done /\ input.tagName \notin TagNamesResolved
    /\ TagResolved.type # MOD_IQM
    /\ input.startFrame >= 0 /\ input.endFrame >= 0
    => outcome.ret = FALSE /\ outcome.tag = ClearedTag

\* the frame the claim has a lookup read for the argument frame of a model
\* with numFrames frames
ClampedFrame(frame, numFrames) ==
    IF frame >= 0 /\ frame <= numFrames - 1 THEN frame ELSE numFrames - 1

\* C18: for every frame argument outside [0, numFrames - 1], too large or
\* negative, R_GetTag reads the tag block of the last valid frame
\* numFrames - 1; hence the frame index it dereferences is always within
\* [0, numFrames - 1].
C18_FrameClamped ==
    outcome.done /\ TagResolved.type = MOD_MESH =>
        LET n == TagModelData(TagResolved.md3[0].data).numFrames
        IN /\ outcome.frames = << ClampedFrame(input.startFrame, n),
                                  ClampedFrame(input.endFrame, n) >>
           /\ \A k \in 1..Len(outcome.frames) :
                 outcome.frames[k] >= 0 /\ outcome.frames[k] <= n - 1

\* a negative frame argument is used as it is
C18_NegativeFrameRead ==
    /\ outcome.done /\ TagResolved.type = MOD_MESH
    /\ input.startFrame < 0
    /\ outcome.frames[1] = input.startFrame

\* what the test does establish: a frame argument of numFrames or more reads
\* the last frame, and no frame read is above numFrames - 1
C18_LargeFrameClamped ==
    outcome.done /\ TagResolved.type = MOD_MESH =>
        LET n == TagModelData(TagResolved.md3[0].data).numFrames
        IN /\ input.startFrame >= n => outcome.frames[1] = n - 1
           /\ input.endFrame >= n => outcome.frames[2] = n - 1
           /\ \A k \in 1..Len(outcome.frames) : outcome.frames[k] <= n - 1

\* the tag tag_a of the bone-hierarchy model at frame f alone, as R_LerpTag
\* would return it
MDRTagAt(f) ==
    LET d == TagModelData("mdr_ok")
        t == TagOfMatrix(d.frames[f].bones[d.tags[0].boneIndex])
    IN [origin |-> [i \in 1..3 |-> FracUnit * t.origin[i]],
        axis |-> [a \in 1..3 |-> VectorNormalize(t.axis[a])]]

\* a call for the tag of a bone-hierarchy model with no negative frame
MDRTagCall ==
    /\ outcome.done
    /\ TagResolved.type = MOD_MDR
    /\ input.tagName \in TagNamesResolved
    /\ input.startFrame >= 0 /\ input.endFrame >= 0

----------------------------------------------------------------------------
(* QuatSlerp *)

\* the components of a quaternion are given in units of 1 / QuatUnit
QuatUnit == 2

\* 0.999999f, as 999999 / 1000000
SlerpLimitNum == 999999
SlerpLimitDen == 1000000

QuatNegate(q) == [i \in 1..4 |-> 0 - q[i]]

\* from . to, in units of 1 / QuatUnit^2
QuatDot(from, to) == from[1] * to[1] + from[2] * to[2] + from[3] * to[3] + from[4] * to[4]

\* QuatSlerp that blends with _to as it is given: C20 fails under it
QuatSlerp_NoNegate(from, _to, fraction) ==
    LET dot == QuatDot(from, _to)
        cosAngle == IF dot < 0 THEN 0 - dot ELSE dot
        slerp == cosAngle * SlerpLimitDen < SlerpLimitNum * QuatUnit * QuatUnit
    IN [from |-> from, to |-> _to, cosAngle |-> cosAngle, fraction |-> fraction,
        slerp |-> slerp,
        out |-> IF slerp THEN << >>
                ELSE [i \in 1..4 |-> from[i] * (FracUnit - fraction) + _to[i] * fraction]]

\* QuatSlerp(from, _to, fraction, out).  On the linear branch out is given in
\* units of 1 / (QuatUnit * FracUnit).  On the spherical branch the weights
\* are sinf((1 - fraction) * angle) / sinAngle and sinf(fraction * angle) /
\* sinAngle with angle = acosf(cosAngle): out is the value these functions
\* give for from, to, cosAngle and fraction, and is left as << >>.
QuatSlerp(from, _to, fraction) ==
    LET dot == QuatDot(from, _to)
        to == IF dot < 0 THEN QuatNegate(_to) ELSE _to
        cosAngle == IF dot < 0 THEN 0 - dot ELSE dot
        slerp == cosAngle * SlerpLimitDen < SlerpLimitNum * QuatUnit * QuatUnit
    IN [from |-> from, to |-> to, cosAngle |-> cosAngle, fraction |-> fraction,
        slerp |-> slerp,
        out |-> IF slerp THEN << >>
                ELSE [i \in 1..4 |-> from[i] * (FracUnit - fraction) + to[i] * fraction]]

\* the quaternions of length 1
UnitQuats ==
    {q \in [1..4 -> (0 - QuatUnit)..QuatUnit] : QuatDot(q, q) = QuatUnit * QuatUnit}

\* fractions from below 0 to above 1
QuatInputs ==
    [op : {"QuatSlerp"}, from : UnitQuats, to : UnitQuats,
     fraction : (0 - 1)..(FracUnit + 1)]

QuatInit ==
    /\ RegistryIdle
    /\ md3in = NULL /\ md3out = NULL /\ mdrin = NULL /\ mdrout = NULL
    /\ input \in QuatInputs
    /\ outcome = FunIdle

Slerp ==
    /\ ~outcome.done
    /\ outcome' = QuatSlerp(input.from, input.to, input.fraction) @@ [done |-> TRUE]
    /\ UNCHANGED <<regVars, md3Vars, mdrVars, input>>

QuatNext == Slerp

SpecQuat == QuatInit /\ [][QuatNext]_vars

\* the quaternion q as an outcome of the linear branch
QuatScaled(q) == [i \in 1..4 |-> FracUnit * q[i]]

\* C20: for any unit quaternion q and fraction f, QuatSlerp(q, q, f) = q; for
\* any from and to with negative dot product QuatSlerp(from, to, f) equals
\* QuatSlerp(from, -to, f); so QuatSlerp(q, -q, f) = q.
C20_SlerpIdentities ==
    outcome.done =>
        /\ input.to = input.from =>
              ~outcome.slerp /\ outcome.out = QuatScaled(input.from)
        /\ QuatDot(input.from, input.to) < 0 =>
              LET other == QuatSlerp(input.from, QuatNegate(input.to), input.fraction)
              IN /\ outcome.to = other.to /\ outcome.cosAngle = other.cosAngle
                 /\ outcome.slerp = other.slerp /\ outcome.out = other.out
        /\ input.to = QuatNegate(input.from) =>
              ~outcome.slerp /\ outcome.out = QuatScaled(input.from)

\* QuatSlerp(q, -q, f) was called with a fraction strictly between 0 and 1
C20_OppositeBlended ==
    /\ outcome.done
    /\ input.to = QuatNegate(input.from)
    /\ input.fraction > 0 /\ input.fraction < FracUnit
    /\ outcome.to = input.from

----------------------------------------------------------------------------
(* ComputePoseMats, ComputeJointMats and their callers *)

\* ComputePoseMats(data, frame, oldframe, backlerp, poseMats):
\*   reads  the frame indexes i of the blocks data.poses[i * num_poses ..] it
\*          reads, in order
\*   mats   the pose matrices, one per pose: products of the blended pose,
\*          the inverse bind and the parent matrices, kept as the term
\*          << frame, oldframe, backlerp, joint >> that determines them
ComputePoseMats(data, frame, oldframe, backlerp) ==
    [reads |-> IF oldframe = frame THEN << frame >> ELSE << frame, oldframe >>,
     mats |-> [j \in 1..data.num_poses |-> << frame, oldframe, backlerp, j >>]]

\* ComputeJointMats that poses every model: C21 fails under it
ComputeJointMats_AlwaysPosed(data, frame, oldframe, backlerp) ==
    ComputePoseMats(data, frame, oldframe, backlerp) @@ [posed |-> TRUE]

\* ComputeJointMats(data, frame, oldframe, backlerp, mat)
ComputeJointMats(data, frame, oldframe, backlerp) ==
    IF data.num_poses = 0
    THEN [reads |-> << >>, mats |-> SubSeq(data.bindJoints, 1, data.num_joints),
          posed |-> FALSE]
    ELSE ComputePoseMats(data, frame, oldframe, backlerp) @@ [posed |-> TRUE]

\* a % n of C for n # 0: the sign of the result is the sign of a
Remainder(a, n) == IF a >= 0 THEN a % n ELSE 0 - ((0 - a) % n)

\* R_AddIQMSurfaces(ent), as far as ent.e.frame and ent.e.oldframe go; with
\* RF_WRAP_FRAMES and num_frames = 0 it divides by zero
R_AddIQMSurfaces(data, ent) ==
    IF ent.wrap /\ data.num_frames = 0
    THEN [frame |-> ent.frame, oldframe |-> ent.oldframe, fault |-> TRUE]
    ELSE LET frame == IF ent.wrap THEN Remainder(ent.frame, data.num_frames) ELSE ent.frame
             oldframe == IF ent.wrap THEN Remainder(ent.oldframe, data.num_frames)
                         ELSE ent.oldframe
         IN IF frame >= data.num_frames \/ frame < 0
               \/ oldframe >= data.num_frames \/ oldframe < 0
            THEN [frame |-> 0, oldframe |-> 0, fault |-> FALSE]
            ELSE [frame |-> frame, oldframe |-> oldframe, fault |-> FALSE]

\* RB_IQMSurfaceAnim(surface), as far as the pose matrices go
RB_IQMSurfaceAnim(data, ent, backlerp) ==
    LET frame == IF data.num_frames # 0 THEN Remainder(ent.frame, data.num_frames) ELSE 0
        oldframe == IF data.num_frames # 0 THEN Remainder(ent.oldframe, data.num_frames) ELSE 0
    IN IF data.num_poses > 0
       THEN ComputePoseMats(data, frame, oldframe, backlerp) @@ [posed |-> TRUE]
       ELSE [reads |-> << >>, mats |-> << >>, posed |-> FALSE]

\* a loaded model: no poses or as many as joints, any number of frames
PoseModels ==
    {[num_joints |-> nj, num_poses |-> np, num_frames |-> nf,
      jointNames |-> [j \in 1..nj |-> "tag_a"],
      bindJoints |-> [j \in 1..nj |->
                         BoneMatrix(IF j % 2 = 0 THEN axisTurned ELSE axisDefault,
                                    << j, 0, 0 >>)]] :
        nj \in {0, MaxJoints}, np \in {0, MaxJoints}, nf \in 0..MaxFrames}

PoseInputs ==
    {i \in [op : {"R_AddIQMSurfaces", "R_IQMLerpTag"}, data : PoseModels,
            frame : (0 - 1)..(MaxFrames + 1), oldframe : (0 - 1)..(MaxFrames + 1),
            wrap : BOOLEAN, backlerp : 0..FracUnit] :
        /\ i.data.num_poses \in {0, i.data.num_joints}
        /\ i.op = "R_IQMLerpTag" => ~i.wrap /\ i.data.num_joints > 0}

PoseIdle ==
    [done |-> FALSE, added |-> FALSE, fault |-> FALSE, frame |-> 0, oldframe |-> 0,
     reads |-> << >>, mats |-> << >>, posed |-> FALSE]

PoseInit ==
    /\ RegistryIdle
    /\ md3in = NULL /\ md3out = NULL /\ mdrin = NULL /\ mdrout = NULL
    /\ input \in PoseInputs
    /\ outcome = PoseIdle

\* the front end adds the entity: its frames are validated in place
AddIQMSurfaces ==
    /\ input.op = "R_AddIQMSurfaces" /\ ~outcome.added /\ ~outcome.done
    /\ \E r \in {R_AddIQMSurfaces(input.data, [frame |-> input.frame,
                                               oldframe |-> input.oldframe,
                                               wrap |-> input.wrap])} :
          outcome' = [outcome EXCEPT !.added = TRUE, !.fault = r.fault, !.done = r.fault,
                                     !.frame = r.frame, !.oldframe = r.oldframe]
    /\ UNCHANGED <<regVars, md3Vars, mdrVars, input>>

\* the back end draws a surface of the entity
SurfaceAnim ==
    /\ outcome.added /\ ~outcome.done
    /\ \E r \in {RB_IQMSurfaceAnim(input.data, outcome, input.backlerp)} :
          outcome' = [outcome EXCEPT !.done = TRUE, !.reads = r.reads, !.mats = r.mats,
                                     !.posed = r.posed]
    /\ UNCHANGED <<regVars, md3Vars, mdrVars, input>>

\* R_IQMLerpTag for a joint the model has: the joint matrices its tag is
\* taken from
IQMLerpTagMats ==
    /\ input.op = "R_IQMLerpTag" /\ ~outcome.done
    /\ \E r \in {ComputeJointMats(input.data, input.frame, input.oldframe, input.backlerp)} :
          outcome' = [outcome EXCEPT !.done = TRUE, !.reads = r.reads, !.mats = r.mats,
                                     !.posed = r.posed]
    /\ UNCHANGED <<regVars, md3Vars, mdrVars, input>>

PoseNext == AddIQMSurfaces \/ SurfaceAnim \/ IQMLerpTagMats

SpecPose == PoseInit /\ [][PoseNext]_vars

\* C21: when a skinned-skeletal model has num_poses = 0, ComputeJointMats
\* returns exactly the model's bind matrices for all num_joints joints, for
\* every frame, oldframe and backlerp, and reads no pose data.
C21_BindPoseDefault ==
    outcome.done /\ input.op = "R_IQMLerpTag" /\ input.data.num_poses = 0 =>
        /\ outcome.mats = input.data.bindJoints
        /\ Len(outcome.mats) = input.data.num_joints
        /\ outcome.reads = << >>

\* ComputeJointMats ran for a model without poses and frames out of range
C21_Witness ==
    /\ outcome.done /\ input.op = "R_IQMLerpTag"
    /\ input.data.num_poses = 0 /\ input.data.num_joints = MaxJoints
    /\ input.frame > input.data.num_frames /\ input.oldframe < 0
    /\ outcome.mats = input.data.bindJoints

\* C24: for every loaded skinned-skeletal model (num_frames = 0 included)
\* and every caller input, each frame index used to index data.poses in
\* ComputePoseMats lies in [0, num_frames), whether it comes from entity
\* frames validated by R_AddIQMSurfaces (with or without RF_WRAP_FRAMES,
\* never dividing by zero) or from the startFrame and endFrame arguments of
\* R_IQMLerpTag.
C24_PoseFramesInRange ==
    /\ ~outcome.fault
    /\ \A k \in 1..Len(outcome.reads) :
          outcome.reads[k] >= 0 /\ outcome.reads[k] < input.data.num_frames

\* R_AddIQMSurfaces took the remainder by num_frames = 0
C24_WrapDividesByZero ==
    /\ outcome.fault /\ input.op = "R_AddIQMSurfaces"
    /\ input.wrap /\ input.data.num_frames = 0

\* R_IQMLerpTag handed a frame argument of num_frames or more to
\* ComputePoseMats, which read the poses of that frame
C24_TagFramePastEnd ==
    /\ outcome.done /\ input.op = "R_IQMLerpTag"
    /\ input.data.num_frames > 0 /\ input.frame >= input.data.num_frames
    /\ outcome.reads # << >> /\ outcome.reads[1] = input.frame

\* a model with poses and no frames is drawn: the poses of frame 0 are read
C24_NoFramesPoseRead ==
    /\ outcome.done /\ input.op = "R_AddIQMSurfaces" /\ ~outcome.fault
    /\ input.data.num_frames = 0 /\ input.data.num_poses > 0
    /\ outcome.reads = << 0 >>

\* what the validation does establish: for a model with frames that is
\* drawn, every pose frame read is inside [0, num_frames)
C24_DrawnFramesInRange ==
    input.op = "R_AddIQMSurfaces" /\ input.data.num_frames > 0 =>
        /\ ~outcome.fault
        /\ \A k \in 1..Len(outcome.reads) :
              outcome.reads[k] >= 0 /\ outcome.reads[k] < input.data.num_frames

----------------------------------------------------------------------------
(* Claims about the registry's capacity *)

\* the table holds between 1 and MAX_MOD_KNOWN records, each at its index
RegistryWithinCapacity ==
    /\ tr_numModels >= 1 /\ tr_numModels <= MAX_MOD_KNOWN
    /\ \A i \in 0..(tr_numModels - 1) : tr_models[i].index = i

\* the last call was RE_RegisterModel on a full table for a name no record has
RegisterOnFullTable ==
    /\ call.op = "RE_RegisterModel" /\ call.full
    /\ call.name # << >>
    /\ \A i \in 1..(tr_numModels - 1) : tr_models[i].name # call.name

\* C22: after any sequence of R_ModelInit, R_AllocModel and RE_RegisterModel
\* calls, 1 <= tr.numModels <= MAX_MOD_KNOWN and tr.models[i].index = i for
\* every i < tr.numModels; R_AllocModel returns failure without changing the
\* table once numModels = MAX_MOD_KNOWN, and RE_RegisterModel then returns 0
\* for a new name without reading any file.
C22_RegistryCapacity ==
    /\ RegistryWithinCapacity
    /\ call.op \in {"R_AllocModel", "RE_RegisterModel"} /\ call.full =>
          call.slot = NoSlot /\ call.kept /\ tr_numModels = MAX_MOD_KNOWN
    /\ RegisterOnFullTable => call.ret = 0 /\ call.io = NoTraffic

\* R_AllocModel failed on a full table
C22_Witness ==
    /\ call.op = "R_AllocModel" /\ call.slot = NoSlot /\ call.full /\ call.kept
    /\ tr_numModels = MAX_MOD_KNOWN

----------------------------------------------------------------------------
(* The blend influences of R_LoadIQM and their use in RB_IQMSurfaceAnim *)

\* most vertexes in a file
MaxVertexes == 3

\* x == y on two floats; a float is [nan, v]
FloatEq(x, y) == ~x.nan /\ ~y.nan /\ x.v = y.v

\* the comparison both passes make between two (blend indexes, blend weights):
\* the four index bytes as one int, then the four weights as floats or, for
\* byte weights, as one int
SameBlend(format, a, b) ==
    /\ a.indexes = b.indexes
    /\ IF format = IQM_FLOAT
       THEN \A c \in 1..4 : FloatEq(a.weights[c], b.weights[c])
       ELSE a.weights = b.weights

\* first pass, one mesh: the vertexes j that no vertex k < j of the mesh equals
UniqueInMesh(format, blend, mesh) ==
    Cardinality({j \in 0..(mesh.num_vertexes - 1) :
                    \A k \in 0..(j - 1) :
                        ~SameBlend(format, blend[mesh.first_vertex + k + 1],
                                   blend[mesh.first_vertex + j + 1])})

RECURSIVE AllocateInfluences(_, _, _, _)
AllocateInfluences(format, blend, meshes, i) ==
    IF i > Len(meshes) THEN 0
    ELSE UniqueInMesh(format, blend, meshes[i])
         + AllocateInfluences(format, blend, meshes, i + 1)

\* second pass, vertex j of the surface: d is [influences, records, num]
RECURSIVE InfluenceVertexes(_, _, _, _, _, _)
InfluenceVertexes(format, blend, surf, first, d, j) ==
    IF j >= surf.num_vertexes THEN d
    ELSE LET vtx == surf.first_vertex + j
             same == {k \in 0..(d.num - 1) :
                        SameBlend(format, d.records[first + k + 1], blend[vtx + 1])}
             k == IF same = {} THEN d.num
                  ELSE CHOOSE x \in same : \A y \in same : x <= y
             stored == [influences |-> [d.influences EXCEPT ![vtx] = first + k],
                        records |-> IF k = d.num THEN Append(d.records, blend[vtx + 1])
                                    ELSE d.records,
                        num |-> IF k = d.num THEN d.num + 1 ELSE d.num]
         IN InfluenceVertexes(format, blend, surf, first, stored, j + 1)

\* second pass, from surface i: w is [influences, records, surfaces]
RECURSIVE InfluenceSurfaces(_, _, _, _, _)
InfluenceSurfaces(format, blend, meshes, w, i) ==
    IF i > Len(meshes) THEN w
    ELSE LET first == Len(w.records)
             d == InfluenceVertexes(format, blend, meshes[i], first,
                        [influences |-> w.influences, records |-> w.records, num |-> 0], 0)
         IN InfluenceSurfaces(format, blend, meshes,
                [influences |-> d.influences, records |-> d.records,
                 surfaces |-> Append(w.surfaces,
                        meshes[i] @@ [first_influence |-> first, num_influences |-> d.num])],
                i + 1)

\* the influence passes of R_LoadIQM for a file with joints: the count of the
\* first pass and what the second stores
IQMInfluences(format, blend, meshes) ==
    LET allocateInfluences == AllocateInfluences(format, blend, meshes, 1)
    IN IF allocateInfluences = 0
       THEN [allocateInfluences |-> 0, influences |-> << >>, records |-> << >>,
             surfaces |-> [i \in 1..Len(meshes) |->
                    meshes[i] @@ [first_influence |-> 0, num_influences |-> 0]]]
       ELSE InfluenceSurfaces(format, blend, meshes,
                [influences |-> [v \in 0..(Len(blend) - 1) |-> 0], records |-> << >>,
                 surfaces |-> << >>], 1)
            @@ [allocateInfluences |-> allocateInfluences]

\* RB_IQMSurfaceAnim on a posed surface: the influence matrices it computes and
\* the ones its vertexes use
SurfaceInfluenceMats(data, surf) ==
    [computed |-> 0..(surf.num_influences - 1),
     used |-> {data.influences[surf.first_vertex + i] - surf.first_influence :
                    i \in 0..(surf.num_vertexes - 1)}]

\* a float that is a number, and one that is not
Float(v) == [nan |-> FALSE, v |-> v]

NotANumber == [nan |-> TRUE, v |-> 0]

\* the (blend indexes, blend weights) a vertex can have, for each weight format
Blends(format) ==
    IF format = IQM_FLOAT
    THEN {[indexes |-> << 0, 1, 0, 0 >>,
           weights |-> << Float(1), Float(0), Float(0), Float(0) >>],
          [indexes |-> << 0, 1, 0, 0 >>,
           weights |-> << NotANumber, Float(0), Float(0), Float(0) >>],
          [indexes |-> << 1, 0, 0, 0 >>,
           weights |-> << Float(1), Float(0), Float(0), Float(0) >>]}
    ELSE {[indexes |-> << 0, 1, 0, 0 >>, weights |-> << 255, 0, 0, 0 >>],
          [indexes |-> << 0, 1, 0, 0 >>, weights |-> << 128, 127, 0, 0 >>],
          [indexes |-> << 1, 0, 0, 0 >>, weights |-> << 255, 0, 0, 0 >>]}

\* the meshes R_LoadIQM accepts in a file of MaxVertexes vertexes
AcceptedMeshes ==
    LET h == [num_vertexes |-> MaxVertexes, num_triangles |-> 1, num_text |-> 8]
    IN {m \in [name : {1}, material : {1}, first_vertex : 0..MaxVertexes,
               num_vertexes : 0..MaxVertexes, first_triangle : {0},
               num_triangles : {1}] : ~IQMMeshRejected(h, m)}

\* the mesh tables of one or two accepted meshes
MeshTables ==
    {<< m >> : m \in AcceptedMeshes}
    \cup {<< m, n >> : m \in AcceptedMeshes, n \in AcceptedMeshes}

InfluenceIdle ==
    [done |-> FALSE, drawn |-> 0, allocateInfluences |-> 0, influences |-> << >>,
     records |-> << >>, surfaces |-> << >>, computed |-> {}, used |-> {}]

InfluenceInit ==
    /\ RegistryIdle
    /\ md3in = NULL /\ md3out = NULL /\ mdrin = NULL /\ mdrout = NULL
    /\ \E format \in {IQM_FLOAT, IQM_UBYTE} :
          \E blend \in [1..MaxVertexes -> Blends(format)], meshes \in MeshTables :
              input = [op |-> "R_LoadIQM", format |-> format, blend |-> blend,
                       meshes |-> meshes]
    /\ outcome = InfluenceIdle

\* the influence passes of R_LoadIQM on a file with joints
LoadInfluences ==
    /\ ~outcome.done
    /\ outcome' = IQMInfluences(input.format, input.blend, input.meshes)
                  @@ [InfluenceIdle EXCEPT !.done = TRUE]
    /\ UNCHANGED <<regVars, md3Vars, mdrVars, input>>

\* RB_IQMSurfaceAnim on one surface of the posed model
DrawInfluences ==
    /\ outcome.done /\ outcome.drawn = 0
    /\ \E s \in 1..Len(outcome.surfaces) :
          /\ outcome.surfaces[s].num_influences > 0
          /\ \E m \in {SurfaceInfluenceMats(outcome, outcome.surfaces[s])} :
                outcome' = [outcome EXCEPT !.drawn = s, !.computed = m.computed,
                                           !.used = m.used]
    /\ UNCHANGED <<regVars, md3Vars, mdrVars, input>>

InfluenceNext == LoadInfluences \/ DrawInfluences

SpecInfluence == InfluenceInit /\ [][InfluenceNext]_vars

----------------------------------------------------------------------------
(* Claims about the blend influences *)

\* vertex v belongs to surface s
InSurface(s, v) == v >= s.first_vertex /\ v < s.first_vertex + s.num_vertexes

\* every vertex of every surface refers to a record of that surface
InfluencesInsideSurface ==
    \A i \in 1..Len(outcome.surfaces) : \A v \in 0..(MaxVertexes - 1) :
        InSurface(outcome.surfaces[i], v) =>
            /\ outcome.surfaces[i].first_influence <= outcome.influences[v]
            /\ outcome.influences[v] < outcome.surfaces[i].first_influence
                                       + outcome.surfaces[i].num_influences

\* the record a vertex of a surface refers to holds the vertex's own blend
InfluenceIsVertexOwn ==
    \A i \in 1..Len(outcome.surfaces) : \A v \in 0..(MaxVertexes - 1) :
        InSurface(outcome.surfaces[i], v) =>
            /\ outcome.influences[v] < Len(outcome.records)
            /\ outcome.records[outcome.influences[v] + 1] = input.blend[v + 1]

\* C23: after a successful R_LoadIQM of a model with joints, every vertex of
\* every surface refers to an influence record inside that surface's range
\* [first_influence, first_influence + num_influences), the record holds the
\* vertex's own blend indexes and weights, for every accepted mesh table
\* (overlapping vertex ranges included), and as many records are stored as
\* the first pass counted.
C23_InfluenceIndexing ==
    outcome.done =>
        /\ InfluencesInsideSurface
        /\ InfluenceIsVertexOwn
        /\ Len(outcome.records) = outcome.allocateInfluences

\* two accepted meshes share a vertex, and after the load the vertex refers
\* to a record outside the first surface's range
C23_SharedVertexOutsideFirst ==
    /\ outcome.done /\ Len(outcome.surfaces) = 2
    /\ \E v \in 0..(MaxVertexes - 1) :
          /\ InSurface(outcome.surfaces[1], v) /\ InSurface(outcome.surfaces[2], v)
          /\ outcome.influences[v] >= outcome.surfaces[1].first_influence
                                      + outcome.surfaces[1].num_influences

\* RB_IQMSurfaceAnim uses an influence matrix it did not compute
C23_DrawUsesUncomputed ==
    outcome.drawn # 0 /\ ~(outcome.used \subseteq outcome.computed)

\* whatever the meshes, the records stored are as many as counted and each
\* vertex's record is its own
C23_CountedAndOwn ==
    outcome.done =>
        /\ InfluenceIsVertexOwn
        /\ Len(outcome.records) = outcome.allocateInfluences

\* when no two meshes share a vertex, every index is inside its surface
C23_DisjointMeshesInside ==
    /\ outcome.done
    /\ \A i, j \in 1..Len(outcome.surfaces) : \A v \in 0..(MaxVertexes - 1) :
            InSurface(outcome.surfaces[i], v) /\ InSurface(outcome.surfaces[j], v) => i = j
    => InfluencesInsideSurface

----------------------------------------------------------------------------
(* Bone and joint indexes: what the loaders store and what the renderer reads *)

MDR_MAX_BONES == 128

\* the bone indexes R_LoadMDR stores for the file b: numBones, the tags'
\* boneIndex and the weights' boneIndex are copied as they are
MDRBones(b) ==
    LET r == MDRDecode(b)
    IN [ret |-> r.ret /\ ~r.fault /\ ~r.wfault, numBones |-> b.numBones,
        numFrames |-> b.numFrames, tagBones |-> b.tagBones,
        weightBones |-> b.weightBones]

\* an access to element index of an array of length elements
BoneAccess(array, index, length) == [array |-> array, index |-> index, length |-> length]

\* R_GetAnimTag on tag i of the loaded model: frame->bones[tag->boneIndex]
AnimTagBones(mod, i) == {BoneAccess("frame", mod.tagBones[i], mod.numBones)}

\* RB_MDRSurfaceAnim: the bones it lerps into bones[MDR_MAX_BONES] when
\* backlerp is not 0, and the bone each weight reads through bonePtr
MDRSurfaceAnimBones(mod, backlerp) ==
    IF backlerp = 0
    THEN {BoneAccess("frame", mod.weightBones[k], mod.numBones) :
                k \in 1..Len(mod.weightBones)}
    ELSE {BoneAccess("bones", i, MDR_MAX_BONES) : i \in {0, mod.numBones - 1}}
         \cup {BoneAccess("bones", mod.weightBones[k], MDR_MAX_BONES) :
                k \in 1..Len(mod.weightBones)}

\* RB_IQMSurfaceAnim on one influence record: the joint matrices of
\* poseMats[IQM_MAX_JOINTS * 12] it reads, of which ComputePoseMats filled
\* num_poses
IQMInfluenceJoints(data, record) ==
    LET weights == record.weights
        \* the first j >= 1 whose weight is not positive ends the loop
        Used(j) == \A c \in 1..j : weights[c] > 0
    IN IF weights[1] <= 0 THEN {}
       ELSE {BoneAccess("poseMats", record.indexes[j], data.num_poses) :
                j \in {j \in 1..4 : Used(j)}}

\* files R_LoadMDR is given: one frame or more, nb bones, one LOD with one
\* vertex of one weight, one tag
BoneCounts == {1, 2, MDR_MAX_BONES + 1}

\* the bone indexes a file of nb bones is given: before the first bone, the
\* first, the last, past the last
BonePlaces == {"before", "first", "last", "past"}

BoneIndexAt(nb, place) ==
    CASE place = "before" -> 0 - 1
      [] place = "first" -> 0
      [] place = "last" -> nb - 1
      [] OTHER -> nb

BoneInputs ==
    {[op |-> "R_LoadMDR", backlerp |-> backlerp,
      b |-> MDRFileOf(nfr, nb, FALSE, 1, << 1 >>, 1, 1)
            @@ [tagBones |-> << BoneIndexAt(nb, tb) >>,
                weightBones |-> << BoneIndexAt(nb, wb) >>]] :
        nfr \in 1..MaxFrames, nb \in BoneCounts, tb \in BonePlaces, wb \in BonePlaces,
        backlerp \in 0..1}
    \cup
    {[op |-> "R_LoadIQM", format |-> IQM_UBYTE, num_joints |-> nj,
      meshes |-> << m >>,
      blend |-> [v \in 1..MaxVertexes |->
                    [indexes |-> << i1, i2, 0, 0 >>, weights |-> << w1, 255 - w1, 0, 0 >>]]] :
        nj \in 1..MaxJoints, i1 \in 0..MaxJoints, i2 \in 0..MaxJoints, w1 \in {0, 128, 255},
        m \in {m \in AcceptedMeshes : m.num_vertexes > 0}}

BoneIdle ==
    [done |-> FALSE, ret |-> FALSE, used |-> "", access |-> {}, numBones |-> 0,
     tagBones |-> << >>, weightBones |-> << >>, records |-> << >>]

BoneInit ==
    /\ RegistryIdle
    /\ md3in = NULL /\ md3out = NULL /\ mdrin = NULL /\ mdrout = NULL
    /\ input \in BoneInputs
    /\ outcome = BoneIdle

\* R_LoadMDR
LoadMDRBones ==
    /\ ~outcome.done /\ input.op = "R_LoadMDR"
    /\ \E r \in {MDRBones(input.b)} :
            outcome' = [BoneIdle EXCEPT !.done = TRUE, !.ret = r.ret,
                                        !.numBones = r.numBones,
                                        !.tagBones = r.tagBones,
                                        !.weightBones = r.weightBones]
    /\ UNCHANGED <<regVars, md3Vars, mdrVars, input>>

\* R_LoadIQM of a file with joints and as many poses
LoadIQMBones ==
    /\ ~outcome.done /\ input.op = "R_LoadIQM"
    /\ \E r \in {IQMInfluences(input.format, input.blend, input.meshes)} :
            outcome' = [BoneIdle EXCEPT !.done = TRUE, !.ret = TRUE,
                                        !.numBones = input.num_joints,
                                        !.records = r.records]
    /\ UNCHANGED <<regVars, md3Vars, mdrVars, input>>

\* R_GetAnimTag on the model's tag
AnimTag ==
    /\ outcome.done /\ outcome.ret /\ outcome.used = "" /\ input.op = "R_LoadMDR"
    /\ outcome' = [outcome EXCEPT !.used = "R_GetAnimTag",
                                  !.access = AnimTagBones(outcome, 1)]
    /\ UNCHANGED <<regVars, md3Vars, mdrVars, input>>

\* RB_MDRSurfaceAnim on the model's surface
MDRSurfaceAnim ==
    /\ outcome.done /\ outcome.ret /\ outcome.used = "" /\ input.op = "R_LoadMDR"
    /\ outcome' = [outcome EXCEPT !.used = "RB_MDRSurfaceAnim",
                                  !.access = MDRSurfaceAnimBones(outcome, input.backlerp)]
    /\ UNCHANGED <<regVars, md3Vars, mdrVars, input>>

\* RB_IQMSurfaceAnim on the model's surface
IQMSurfaceAnim ==
    /\ outcome.done /\ outcome.ret /\ outcome.used = "" /\ input.op = "R_LoadIQM"
    /\ outcome' = [outcome EXCEPT
            !.used = "RB_IQMSurfaceAnim",
            !.access = UNION {IQMInfluenceJoints([num_poses |-> outcome.numBones],
                                                 outcome.records[i]) :
                                i \in 1..Len(outcome.records)}]
    /\ UNCHANGED <<regVars, md3Vars, mdrVars, input>>

BoneNext ==
    \/ LoadMDRBones
    \/ LoadIQMBones
    \/ AnimTag
    \/ MDRSurfaceAnim
    \/ IQMSurfaceAnim

SpecBone == BoneInit /\ [][BoneNext]_vars

----------------------------------------------------------------------------
(* Claims about bone and joint indexes *)

\* the access is inside its array
BoneAccessInside(a) == a.index >= 0 /\ a.index < a.length

\* every bone index the loaded MDR holds is one of its bones
MDRBonesInRange ==
    /\ outcome.numBones <= MDR_MAX_BONES
    /\ \A i \in 1..Len(outcome.tagBones) :
            outcome.tagBones[i] >= 0 /\ outcome.tagBones[i] < outcome.numBones
    /\ \A i \in 1..Len(outcome.weightBones) :
            outcome.weightBones[i] >= 0 /\ outcome.weightBones[i] < outcome.numBones

\* every blend index of positive weight the loaded IQM holds is one of its joints
IQMBlendIndexesInRange ==
    \A i \in 1..Len(outcome.records) : \A c \in 1..4 :
        outcome.records[i].weights[c] > 0 => outcome.records[i].indexes[c] < outcome.numBones

\* C25: for every successfully decoded bone-hierarchy model numBones <=
\* MDR_MAX_BONES and every tag's and every vertex weight's boneIndex lies in
\* [0, numBones), so R_GetAnimTag and RB_MDRSurfaceAnim never index a frame's
\* bones or the bones[MDR_MAX_BONES] scratch array out of range; for every
\* skinned-skeletal model every stored blend index with positive weight is
\* below num_joints.
C25_BoneIndexesInRange ==
    outcome.done /\ outcome.ret =>
        /\ input.op = "R_LoadMDR" => MDRBonesInRange
        /\ input.op = "R_LoadIQM" => IQMBlendIndexesInRange
        /\ \A a \in outcome.access : BoneAccessInside(a)

\* R_LoadMDR accepted a file of more than MDR_MAX_BONES bones, and
\* RB_MDRSurfaceAnim lerped past the end of bones[MDR_MAX_BONES]
C25_ScratchOverrun ==
    /\ outcome.used = "RB_MDRSurfaceAnim" /\ outcome.numBones > MDR_MAX_BONES
    /\ \E a \in outcome.access : a.array = "bones" /\ a.index >= MDR_MAX_BONES

\* R_GetAnimTag read a bone at a negative index
C25_TagBoneBeforeFrame ==
    /\ outcome.used = "R_GetAnimTag"
    /\ \E a \in outcome.access : a.index < 0

\* RB_MDRSurfaceAnim read a weight's bone past the frame's bones
C25_WeightBonePastFrame ==
    /\ outcome.used = "RB_MDRSurfaceAnim"
    /\ \E a \in outcome.access : a.array = "frame" /\ a.index >= a.length

\* RB_IQMSurfaceAnim read the matrix of a joint the model does not have
C25_BlendIndexPastJoints ==
    /\ outcome.used = "RB_IQMSurfaceAnim"
    /\ \E a \in outcome.access : a.index >= a.length

\* a model whose stored indexes are all in range is read in range
C25_InRangeIsReadInRange ==
    /\ outcome.done /\ outcome.ret
    /\ input.op = "R_LoadMDR" => MDRBonesInRange
    /\ input.op = "R_LoadIQM" => IQMBlendIndexesInRange
    => \A a \in outcome.access : BoneAccessInside(a)

----------------------------------------------------------------------------
(* The three register functions on their own: the raw buffer *)

\* what a file may hold here: as in the registry, or a buffer shorter than
\* any identifier or header
RawContents(path) == Contents(path) \cup {"short"}

RawInputs ==
    [op : {"R_RegisterMD3", "R_RegisterMDR", "R_RegisterIQM"},
     name : {f_, f_md3, f_mdr, f_iqm, f_x}]

RawIdle == [done |-> FALSE, h |-> 0, io |-> NoTraffic]

RawInit ==
    /\ \E present \in SUBSET Files :
         /\ Cardinality(present) <= MaxFiles
         /\ fs \in [present -> Buffers \cup {"short"}]
         /\ \A path \in present : fs[path] \in RawContents(path)
    /\ LET t == ModelInitTable(ZeroTable)
       IN /\ tr_numModels = t.numModels
          /\ tr_models = t.models
    /\ call = NoCall
    /\ issued = [n \in Names |-> 0]
    /\ failed = {}
    /\ md3in = NULL /\ md3out = NULL /\ mdrin = NULL /\ mdrout = NULL
    /\ input \in RawInputs
    /\ outcome = RawIdle

\* the loader state a register function is entered with: a fresh model record
\* and no traffic
FreshLoad(name) ==
    [mod |-> [HunkModel EXCEPT !.index = 1, !.name = name]] @@ NoTraffic

RawDone(r) ==
    outcome' = [done |-> TRUE, h |-> r.h,
                io |-> [reads |-> r.ls.reads, frees |-> r.ls.frees,
                        decodes |-> r.ls.decodes]]

\* R_RegisterMD3(name, mod)
RegisterMD3 ==
    /\ ~outcome.done /\ input.op = "R_RegisterMD3"
    /\ \E r \in {R_RegisterMD3(input.name, FreshLoad(input.name))} : RawDone(r)
    /\ UNCHANGED <<regVars, md3Vars, mdrVars, input>>

\* R_RegisterMDR(name, mod)
RegisterMDR ==
    /\ ~outcome.done /\ input.op = "R_RegisterMDR"
    /\ \E r \in {R_RegisterMDR(input.name, FreshLoad(input.name))} : RawDone(r)
    /\ UNCHANGED <<regVars, md3Vars, mdrVars, input>>

\* R_RegisterIQM(name, mod)
RegisterIQM ==
    /\ ~outcome.done /\ input.op = "R_RegisterIQM"
    /\ \E r \in {R_RegisterIQM(input.name, FreshLoad(input.name))} : RawDone(r)
    /\ UNCHANGED <<regVars, md3Vars, mdrVars, input>>

RawNext == RegisterMD3 \/ RegisterMDR \/ RegisterIQM

SpecRaw == RawInit /\ [][RawNext]_vars

----------------------------------------------------------------------------
(* Claims about the raw buffer *)

\* the file exists
Present(path) == path \in DOMAIN fs

\* C26: on every path through R_RegisterMD3, R_RegisterMDR and R_RegisterIQM
\* (success, truncated header, unknown ident, decode failure) each buffer
\* FS_ReadFile returned is passed to FS_FreeFile exactly once before the
\* function returns, and FS_FreeFile is never called for an absent file.
C26_RawBufferReleased ==
    outcome.done =>
        /\ outcome.io.frees = SelectSeq(outcome.io.reads, Present)
        /\ \A i \in 1..Len(outcome.io.frees) : Present(outcome.io.frees[i])

\* R_RegisterMD3 found one level of detail absent and another present, and
\* freed only the one it was given
C26_Witness ==
    /\ outcome.done /\ input.op = "R_RegisterMD3"
    /\ \E i \in 1..Len(outcome.io.reads) : ~Present(outcome.io.reads[i])
    /\ outcome.io.frees # << >>
    /\ outcome.io.frees = SelectSeq(outcome.io.reads, Present)

\* R_RegisterMDR was given a buffer shorter than the identifier and freed it
C26_ShortBufferFreed ==
    /\ outcome.done /\ input.op = "R_RegisterMDR"
    /\ Present(input.name) /\ fs[input.name] = "short"
    /\ outcome.io.frees = << input.name >> /\ outcome.io.decodes = << >>

----------------------------------------------------------------------------
(* R_MDRAddAnimSurfaces: the entity's frames *)

\* MDR_IDENT as the int LittleLong reads: ('5' << 24) + ('M' << 16) + ('D' << 8) + 'R'
MDR_IDENT_Long == 894256210

\* R_MDRAddAnimSurfaces(ent), as far as ent.e.frame and ent.e.oldframe go.
\* header is what the code reads through
\* "(mdrHeader_t &)tr.currentModel->modelData": the frame is reduced modulo
\* header.ident, the old frame modulo header.numFrames; a zero divisor faults
R_MDRAddAnimSurfaces(header, ent) ==
    IF ent.wrap /\ (header.ident = 0 \/ header.numFrames = 0)
    THEN [frame |-> ent.frame, oldframe |-> ent.oldframe, fault |-> TRUE]
    ELSE LET frame == IF ent.wrap THEN Remainder(ent.frame, header.ident) ELSE ent.frame
             oldframe == IF ent.wrap THEN Remainder(ent.oldframe, header.numFrames)
                         ELSE ent.oldframe
         IN IF frame >= header.numFrames \/ frame < 0
               \/ oldframe >= header.numFrames \/ oldframe < 0
            THEN [frame |-> 0, oldframe |-> 0, fault |-> FALSE]
            ELSE [frame |-> frame, oldframe |-> oldframe, fault |-> FALSE]

\* the header of a loaded model of nf frames
MDRHeaderOf(nf) == [ident |-> MDR_IDENT_Long, numFrames |-> nf]

\* what lies where the code reads the header: the model's header, or other
\* memory
MDRHeadersSeen(nf) ==
    {MDRHeaderOf(nf)}
    \cup [ident : {0, 1, MDR_IDENT_Long}, numFrames : {0, nf, nf + 1}]

WrapIdle == [done |-> FALSE, fault |-> FALSE, frame |-> 0, oldframe |-> 0]

WrapInit ==
    /\ RegistryIdle
    /\ md3in = NULL /\ md3out = NULL /\ mdrin = NULL /\ mdrout = NULL
    /\ \E nf \in 1..MaxFrames :
          \E header \in MDRHeadersSeen(nf), wrap \in BOOLEAN,
             frame \in (0 - 1)..(2 * MaxFrames + 1),
             oldframe \in (0 - 1)..(2 * MaxFrames + 1) :
                input = [op |-> "R_MDRAddAnimSurfaces", numFrames |-> nf,
                         header |-> header, wrap |-> wrap, frame |-> frame,
                         oldframe |-> oldframe]
    /\ outcome = WrapIdle

\* R_MDRAddAnimSurfaces(ent) up to the frame validation
MDRAddAnimSurfaces ==
    /\ ~outcome.done
    /\ outcome' = R_MDRAddAnimSurfaces(input.header, input) @@ [done |-> TRUE]
    /\ UNCHANGED <<regVars, md3Vars, mdrVars, input>>

WrapNext == MDRAddAnimSurfaces

SpecWrap == WrapInit /\ [][WrapNext]_vars

----------------------------------------------------------------------------
(* Claims about the frames of a bone-hierarchy entity *)

\* the code read the model's own header
MDRHeaderIsTheModels == input.header = MDRHeaderOf(input.numFrames)

\* C27: with RF_WRAP_FRAMES set R_MDRAddAnimSurfaces reduces ent.e.frame and
\* ent.e.oldframe modulo the model's numFrames before the validation, so a
\* non-negative frame f >= numFrames is rendered as f mod numFrames and not
\* reset to 0; after validation 0 <= frame, oldframe < numFrames.
C27_FramesWrapped ==
    outcome.done =>
        /\ ~outcome.fault
        /\ outcome.frame >= 0 /\ outcome.frame < input.numFrames
        /\ outcome.oldframe >= 0 /\ outcome.oldframe < input.numFrames
        /\ input.wrap /\ input.frame >= 0 /\ input.oldframe >= 0 =>
              /\ outcome.frame = input.frame % input.numFrames
              /\ outcome.oldframe = input.oldframe % input.numFrames

\* the model's own header was read, and a frame past the end was reset to 0
\* where its remainder is not 0
C27_FrameResetNotWrapped ==
    /\ outcome.done /\ MDRHeaderIsTheModels /\ input.wrap
    /\ input.frame >= input.numFrames /\ input.oldframe >= 0
    /\ input.frame % input.numFrames # 0
    /\ outcome.frame = 0 /\ outcome.oldframe = 0

\* the remainder was taken by zero
C27_WrapDividesByZero == outcome.done /\ outcome.fault

\* other memory was read as the header, and the frames left are not frames
\* of the model
C27_FramesPastModel ==
    /\ outcome.done /\ ~outcome.fault
    /\ outcome.frame >= input.numFrames \/ outcome.oldframe >= input.numFrames

\* when the model's own header is read the frames left are frames of the
\* model, and with RF_WRAP_FRAMES an old frame is wrapped whenever the frame
\* itself is in range
C27_OwnHeaderInRange ==
    outcome.done /\ MDRHeaderIsTheModels =>
        /\ ~outcome.fault
        /\ outcome.frame >= 0 /\ outcome.frame < input.numFrames
        /\ outcome.oldframe >= 0 /\ outcome.oldframe < input.numFrames
        /\ /\ input.wrap /\ input.oldframe >= 0
           /\ input.frame >= 0 /\ input.frame < input.numFrames
           => /\ outcome.frame = input.frame
              /\ outcome.oldframe = input.oldframe % input.numFrames

----------------------------------------------------------------------------
(* The flare pool: R_ClearFlares, RB_AddFlare, RB_RenderFlares *)

\* flare structs in the pool
MAX_FLARES == 2

\* a null flare_t pointer; a flare_t pointer is the struct's index
NoFlare == 0 - 1

FlareSurfaces == {1, 2}
FlareScenes == {0}
PortalViews == {"PV_NONE", "PV_PORTAL"}
FrameCounts == {0, 1}

\* backEnd.viewParms, as far as the flares read it
ViewParms == [frameSceneNum : FlareScenes, portalView : PortalViews, frameCount : FrameCounts]

\* a flare_t after Com_Memset
ZeroFlare ==
    [surface |-> 0, frameSceneNum |-> 0, portalView |-> "PV_NONE", addedFrame |-> 0,
     testCount |-> 0]

\* the statics before R_ClearFlares ran: zero
ZeroPool ==
    [next |-> [i \in 0..(MAX_FLARES - 1) |-> NoFlare], active |-> NoFlare,
     inactive |-> NoFlare, flares |-> [i \in 0..(MAX_FLARES - 1) |-> ZeroFlare]]

RECURSIVE ClearLoop(_, _)
\* for (i = 0; i < MAX_FLARES; i++) of R_ClearFlares
ClearLoop(p, i) ==
    IF i >= MAX_FLARES THEN p
    ELSE ClearLoop([p EXCEPT !.next[i] = p.inactive, !.inactive = i], i + 1)

\* R_ClearFlares()
R_ClearFlares(p, fragmentStores) ==
    IF ~fragmentStores THEN p ELSE ClearLoop(ZeroPool, 0)

\* R_SearchFlare that finds nothing, so that every add takes a new struct:
\* C28 fails under it
R_SearchFlare_NeverFound(p, flare, surface, vp) == NoFlare

RECURSIVE R_SearchFlare(_, _, _, _)
\* R_SearchFlare(surface), from flare on
R_SearchFlare(p, flare, surface, vp) ==
    IF flare = NoFlare THEN NoFlare
    ELSE IF /\ p.flares[flare].surface = surface
            /\ p.flares[flare].frameSceneNum = vp.frameSceneNum
            /\ p.flares[flare].portalView = vp.portalView
    THEN flare
    ELSE R_SearchFlare(p, p.next[flare], surface, vp)

\* RB_AddFlare(surface, ...); culled when the viewer is behind the flare or
\* the point is off the screen.  testCount is only ever compared with 0 and
\* is kept as 0 or 1.
RB_AddFlare(p, surface, vp, culled) ==
    LET found == R_SearchFlare(p, p.active, surface, vp)
        flare == IF found = NoFlare THEN p.inactive ELSE found
        taken == [p EXCEPT !.inactive = p.next[flare], !.next[flare] = p.active,
                           !.active = flare,
                           !.flares[flare].surface = surface,
                           !.flares[flare].frameSceneNum = vp.frameSceneNum,
                           !.flares[flare].portalView = vp.portalView,
                           !.flares[flare].testCount = 0]
        p1 == IF found = NoFlare THEN taken ELSE [p EXCEPT !.flares[flare].testCount = 1]
    IN IF culled THEN p
       ELSE IF found = NoFlare /\ p.inactive = NoFlare THEN p
       ELSE [p1 EXCEPT !.flares[flare].addedFrame = vp.frameCount]

\* "*prev = f->next; f->next = r_inactiveFlares; r_inactiveFlares = f;" where
\* prev is &r_activeFlares (NoFlare) or &flares[prev].next
FlareUnlink(p, prev, f) ==
    LET p1 == IF prev = NoFlare THEN [p EXCEPT !.active = p.next[f]]
              ELSE [p EXCEPT !.next[prev] = p.next[f]]
    IN [p1 EXCEPT !.next[f] = p.inactive, !.inactive = f]

RECURSIVE RenderWalk(_, _, _, _)
\* the while loop of RB_RenderFlares; faded holds the flares RB_TestFlare
\* leaves with drawIntensity 0
RenderWalk(p, prev, vp, faded) ==
    LET f == IF prev = NoFlare THEN p.active ELSE p.next[prev]
    IN IF f = NoFlare THEN p
       ELSE IF /\ vp.frameCount - p.flares[f].addedFrame > 0
               /\ p.flares[f].portalView = vp.portalView
       THEN RenderWalk(FlareUnlink(p, prev, f), prev, vp, faded)
       ELSE IF /\ p.flares[f].frameSceneNum = vp.frameSceneNum
               /\ p.flares[f].portalView = vp.portalView
               /\ p.flares[f].testCount # 0
               /\ f \in faded
       THEN RenderWalk(FlareUnlink(p, prev, f), prev, vp, faded)
       ELSE RenderWalk(p, f, vp, faded)

\* RB_RenderFlares(); off when r_flares is 0, in the screen-map pass or in
\* hyperspace
RB_RenderFlares(p, vp, faded, off) ==
    IF off THEN p ELSE RenderWalk(p, NoFlare, vp, faded)

RECURSIVE FlareList(_, _, _)
\* the structs on the list of pool p from f, in at most n steps
FlareList(p, f, n) ==
    IF f = NoFlare \/ n = 0 THEN {}
    ELSE {f} \cup FlareList(p, p.next[f], n - 1)

\* the flares RB_RenderFlares hands to RB_TestFlare: the active ones of this
\* scene and view that it does not throw out
TestedFlares(p, vp) ==
    {f \in FlareList(p, p.active, MAX_FLARES) :
        /\ p.flares[f].frameSceneNum = vp.frameSceneNum
        /\ p.flares[f].portalView = vp.portalView
        /\ vp.frameCount - p.flares[f].addedFrame <= 0}

\* the view of a call that returns before it reads the view
FirstView == [frameSceneNum |-> 0, portalView |-> "PV_NONE", frameCount |-> 0]

FlareIdle == ZeroPool @@ [done |-> FALSE, last |-> "none"]

FlareInit ==
    /\ RegistryIdle
    /\ md3in = NULL /\ md3out = NULL /\ mdrin = NULL /\ mdrout = NULL
    /\ input = [op |-> "flares"]
    /\ outcome = FlareIdle

\* the pool in the state
Pool ==
    [next |-> outcome.next, active |-> outcome.active, inactive |-> outcome.inactive,
     flares |-> outcome.flares]

\* done records that R_ClearFlares has initialised the pool
ClearFlares ==
    /\ \E fragmentStores \in BOOLEAN :
          outcome' = R_ClearFlares(Pool, fragmentStores)
                     @@ [done |-> outcome.done \/ fragmentStores, last |-> "R_ClearFlares"]
    /\ UNCHANGED <<regVars, md3Vars, mdrVars, input>>

AddFlare ==
    /\ \E culled \in BOOLEAN :
          \E surface \in IF culled THEN {1} ELSE FlareSurfaces,
             vp \in IF culled THEN {FirstView} ELSE ViewParms :
                outcome' = RB_AddFlare(Pool, surface, vp, culled)
                           @@ [done |-> outcome.done, last |-> "RB_AddFlare"]
    /\ UNCHANGED <<regVars, md3Vars, mdrVars, input>>

RenderFlares ==
    /\ \E off \in BOOLEAN :
          \E vp \in IF off THEN {FirstView} ELSE ViewParms :
             \E faded \in IF off THEN {{}} ELSE SUBSET TestedFlares(Pool, vp) :
                outcome' = RB_RenderFlares(Pool, vp, faded, off)
                           @@ [done |-> outcome.done, last |-> "RB_RenderFlares"]
    /\ UNCHANGED <<regVars, md3Vars, mdrVars, input>>

FlareNext == ClearFlares \/ AddFlare \/ RenderFlares

SpecFlare == FlareInit /\ [][FlareNext]_vars

----------------------------------------------------------------------------
(* Claims about the flare pool *)

RECURSIVE FlareChain(_, _)
\* the structs on the list from f, in at most n steps
FlareChain(f, n) ==
    IF f = NoFlare \/ n = 0 THEN << >>
    ELSE << f >> \o FlareChain(outcome.next[f], n - 1)

RECURSIVE FlareChainEnds(_, _)
\* the list from f ends within n steps
FlareChainEnds(f, n) ==
    IF f = NoFlare THEN TRUE
    ELSE IF n = 0 THEN FALSE
    ELSE FlareChainEnds(outcome.next[f], n - 1)

ActiveFlares == FlareChain(outcome.active, MAX_FLARES)

InactiveFlares == FlareChain(outcome.inactive, MAX_FLARES)

\* every struct is on exactly one of the two lists, and both lists end
FlaresConserved ==
    /\ FlareChainEnds(outcome.active, MAX_FLARES)
    /\ FlareChainEnds(outcome.inactive, MAX_FLARES)
    /\ Len(ActiveFlares) + Len(InactiveFlares) = MAX_FLARES
    /\ \A i \in 0..(MAX_FLARES - 1) :
          (\E k \in 1..Len(ActiveFlares) : ActiveFlares[k] = i)
          # (\E k \in 1..Len(InactiveFlares) : InactiveFlares[k] = i)

\* no two active flares have the same surface, scene and view
FlaresDistinct ==
    \A j, k \in 1..Len(ActiveFlares) :
        LET a == outcome.flares[ActiveFlares[j]]
            b == outcome.flares[ActiveFlares[k]]
        IN /\ a.surface = b.surface /\ a.frameSceneNum = b.frameSceneNum
           /\ a.portalView = b.portalView
           => j = k

\* C28: once R_ClearFlares has initialised the pool, after any interleaving
\* of RB_AddFlare and RB_RenderFlares every one of the MAX_FLARES structs is
\* on exactly one of the active and inactive lists, both lists are acyclic,
\* at most one active flare exists per (surface, frameSceneNum, portalView),
\* and RB_AddFlare with an empty inactive list leaves both lists unchanged.
C28_FlarePoolConserved ==
    /\ [](outcome.done => FlaresConserved /\ FlaresDistinct)
    /\ [][/\ outcome.done /\ outcome.inactive = NoFlare
          /\ outcome'.last = "RB_AddFlare"
          => /\ outcome'.next = outcome.next
             /\ outcome'.active = outcome.active
             /\ outcome'.inactive = outcome.inactive]_vars

\* RB_AddFlare was called with every struct active, the last one taken being
\* one that RB_RenderFlares had unlinked behind the head of the active list
C28_Witness ==
    /\ outcome.done /\ outcome.last = "RB_AddFlare"
    /\ outcome.inactive = NoFlare /\ Len(ActiveFlares) = MAX_FLARES
    /\ outcome.active # 0

----------------------------------------------------------------------------
(* World surfaces of one view: R_AddWorldSurface, R_AddLitSurface *)

\* values tr.viewCount and tr.lightCount take before the model stops counting
MaxViews == 2
MaxLights == 2

\* msurface_t of the world: surface 1 has a shader with a lighting stage,
\* surface 2 one without
WorldSurfaces == {1, 2}

\* surf.shader->lightingStage
LightingStage(s) == IF s = 2 THEN 0 - 1 ELSE 0

\* node->firstmarksurface[0 .. nummarksurfaces - 1] of the leaves
Leaves ==
    {<<s>> : s \in WorldSurfaces}
    \cup UNION {{<<s, t>> : t \in WorldSurfaces \ {s}} : s \in WorldSurfaces}

\* the surfaces a leaf references
Marked(mark) == {mark[i] : i \in 1..Len(mark)}

\* tr and the surfaces after loading (zeroed), with the calls the two
\* functions made: drawn[s] R_AddDrawSurf calls in the view, lit[s]
\* R_AddLitSurf calls for the light, again / litAgain the surface of the last
\* early return at "already in this view" and at surf.lightCount ==
\* tr.lightCount (0: none)
ZeroWorld ==
    [viewCount |-> 0, lightCount |-> 0,
     surfs |-> [s \in WorldSurfaces |-> [viewCount |-> 0, vcVisible |-> 0, lightCount |-> 0]],
     drawn |-> [s \in WorldSurfaces |-> 0], lit |-> [s \in WorldSurfaces |-> 0],
     again |-> 0, litAgain |-> 0]

\* one more call, counted up to two
Counted(n) == IF n >= 2 THEN 2 ELSE n + 1

\* R_AddWorldSurface without the viewCount test: a surface is submitted once
\* for every leaf that references it, and C29 fails
R_AddWorldSurface_EveryReference(w, s, culled, dlightMode) ==
    IF culled THEN [w EXCEPT !.surfs[s].viewCount = w.viewCount]
    ELSE [w EXCEPT !.surfs[s].viewCount = w.viewCount,
                   !.surfs[s].vcVisible = IF dlightMode THEN w.viewCount ELSE @,
                   !.drawn[s] = Counted(@)]

\* R_AddWorldSurface(surf, dlightBits); culled is R_CullSurface's verdict and
\* dlightMode is r_dlightMode->integer != 0. dlightBits only reaches
\* R_AddDrawSurf's last argument
R_AddWorldSurface(w, s, culled, dlightMode) ==
    IF w.surfs[s].viewCount = w.viewCount THEN [w EXCEPT !.again = s]
    ELSE IF culled THEN [w EXCEPT !.surfs[s].viewCount = w.viewCount]
    ELSE IF dlightMode
         THEN [w EXCEPT !.surfs[s].viewCount = w.viewCount,
                        !.surfs[s].vcVisible = w.viewCount,
                        !.drawn[s] = Counted(@)]
         ELSE [w EXCEPT !.surfs[s].viewCount = w.viewCount,
                        !.drawn[s] = Counted(@)]

\* R_AddLitSurface(surf, light); lightCulled is R_LightCullSurface's verdict
R_AddLitSurface(w, s, lightCulled) ==
    IF w.surfs[s].vcVisible # w.viewCount THEN w
    ELSE IF LightingStage(s) < 0 THEN w
    ELSE IF w.surfs[s].lightCount = w.lightCount THEN [w EXCEPT !.litAgain = s]
    ELSE IF lightCulled THEN [w EXCEPT !.surfs[s].lightCount = w.lightCount]
    ELSE [w EXCEPT !.surfs[s].lightCount = w.lightCount, !.lit[s] = Counted(@)]

RECURSIVE WorldLeafMarks(_, _, _, _, _)
\* the mark surfaces of a leaf in R_RecursiveWorldNode
WorldLeafMarks(w, mark, i, culled, dlightMode) ==
    IF i > Len(mark) THEN w
    ELSE WorldLeafMarks(R_AddWorldSurface(w, mark[i], mark[i] \in culled, dlightMode),
                        mark, i + 1, culled, dlightMode)

RECURSIVE LightLeafMarks(_, _, _, _)
\* the mark surfaces of a leaf in R_RecursiveLightNode
LightLeafMarks(w, mark, i, lightCulled) ==
    IF i > Len(mark) THEN w
    ELSE LightLeafMarks(R_AddLitSurface(w, mark[i], mark[i] \in lightCulled),
                        mark, i + 1, lightCulled)

WorldIdle == ZeroWorld @@ [done |-> FALSE]

WorldInit ==
    /\ RegistryIdle
    /\ md3in = NULL /\ md3out = NULL /\ mdrin = NULL /\ mdrout = NULL
    /\ input = [op |-> "world"]
    /\ outcome = WorldIdle

\* tr and the surfaces in the state
World ==
    [viewCount |-> outcome.viewCount, lightCount |-> outcome.lightCount,
     surfs |-> outcome.surfs, drawn |-> outcome.drawn, lit |-> outcome.lit,
     again |-> outcome.again, litAgain |-> outcome.litAgain]

\* a view begins: tr.viewCount++ of R_RenderView, before any surface is added
RenderView ==
    /\ outcome.viewCount < MaxViews
    /\ outcome' = [outcome EXCEPT !.viewCount = @ + 1, !.done = TRUE,
                                  !.drawn = ZeroWorld.drawn, !.again = ZeroWorld.again]
    /\ UNCHANGED <<regVars, md3Vars, mdrVars, input>>

\* R_RecursiveWorldNode reaches a leaf of the view
WorldLeaf ==
    /\ outcome.done
    /\ \E mark \in Leaves, dlightMode \in BOOLEAN :
          \E culled \in SUBSET Marked(mark) :
             outcome' = WorldLeafMarks(World, mark, 1, culled, dlightMode) @@ [done |-> TRUE]
    /\ UNCHANGED <<regVars, md3Vars, mdrVars, input>>

\* tr.lightCount++ for the next light of the view
NextLight ==
    /\ outcome.done
    /\ outcome.lightCount < MaxLights
    /\ outcome' = [outcome EXCEPT !.lightCount = @ + 1,
                                  !.lit = ZeroWorld.lit, !.litAgain = ZeroWorld.litAgain]
    /\ UNCHANGED <<regVars, md3Vars, mdrVars, input>>

\* R_RecursiveLightNode reaches a leaf for tr.light
LightLeaf ==
    /\ outcome.done
    /\ outcome.lightCount > 0
    /\ \E mark \in Leaves :
          \E lightCulled \in SUBSET Marked(mark) :
             outcome' = LightLeafMarks(World, mark, 1, lightCulled) @@ [done |-> TRUE]
    /\ UNCHANGED <<regVars, md3Vars, mdrVars, input>>

WorldNext == RenderView \/ WorldLeaf \/ NextLight \/ LightLeaf

SpecWorld == WorldInit /\ [][WorldNext]_vars

----------------------------------------------------------------------------
(* Claims about the world surfaces *)

\* the surface went to R_AddDrawSurf in this view with vcVisible set
SubmittedVisible(s) ==
    /\ outcome.drawn[s] = 1
    /\ outcome.surfs[s].vcVisible = outcome.viewCount

\* C29: within one value of tr.viewCount a world surface goes to R_AddDrawSurf
\* at most once, however many leaves reference it; within one value of
\* tr.lightCount a surface goes to R_AddLitSurf at most once, and only when it
\* was submitted as visible in the current view (vcVisible = tr.viewCount)
C29_OncePerView ==
    /\ [](outcome.done =>
             \A s \in WorldSurfaces : outcome.drawn[s] <= 1 /\ outcome.lit[s] <= 1)
    /\ [][outcome.done =>
             \A s \in WorldSurfaces :
                outcome'.lit[s] > outcome.lit[s] => SubmittedVisible(s)]_vars

\* a surface was submitted and lit once although a second leaf referenced it
\* in the view and in the light
C29_Witness ==
    /\ outcome.done
    /\ \E s \in WorldSurfaces :
          /\ outcome.drawn[s] = 1 /\ outcome.again = s
          /\ outcome.lit[s] = 1 /\ outcome.litAgain = s
          /\ outcome.viewCount = MaxViews /\ outcome.lightCount = MaxLights

----------------------------------------------------------------------------
(* Culling a world surface: R_CullTriSurf, R_CullGrid, R_CullSurface *)

\* verdicts of R_CullLocalBox, R_CullPointAndRadius, R_CullLocalPointAndRadius
CullVerdicts == {"CULL_IN", "CULL_CLIP", "CULL_OUT"}

\* surfaceType_t values a world surface carries
SurfaceTypes == {"SF_SKIP", "SF_FACE", "SF_GRID", "SF_TRIANGLES", "SF_FLARE"}

CullTypes == {"CT_FRONT_SIDED", "CT_BACK_SIDED", "CT_TWO_SIDED"}

\* DotProduct(tr.ort.viewOrigin, sface->plane.normal) - sface->plane.dist,
\* around the epsilon of 8 on both sides
PlaneDistances == {0 - 9, 0 - 8, 0, 8, 9}

\* R_CullTriSurf(cv); boxCull is R_CullLocalBox(cv->bounds)
R_CullTriSurf(boxCull) == boxCull = "CULL_OUT"

\* R_CullGrid(cv); sphereCull is the verdict of the sphere test the entity
\* number selects and boxCull is R_CullLocalBox(cv->meshBounds)
R_CullGrid(nocurves, sphereCull, boxCull) ==
    IF nocurves THEN TRUE
    ELSE IF sphereCull = "CULL_OUT" THEN TRUE
    ELSE IF sphereCull = "CULL_CLIP" THEN boxCull = "CULL_OUT"
    ELSE FALSE

\* the face culling of R_CullSurface; d is the distance of the view origin
\* from the face's plane
FacePlaneCull(cullType, facePlaneCull, d) ==
    IF ~facePlaneCull THEN FALSE
    ELSE IF cullType = "CT_FRONT_SIDED" THEN d < 0 - 8
    ELSE d > 8

\* R_CullSurface(surface, shader)
R_CullSurface(in) ==
    IF in.nocull THEN FALSE
    ELSE IF in.cullType = "CT_TWO_SIDED" THEN FALSE
    ELSE IF in.surface # "SF_FACE" THEN FALSE
    ELSE IF in.surface = "SF_GRID"
         THEN R_CullGrid(in.nocurves, in.sphereCull, in.boxCull)
    ELSE IF in.surface = "SF_TRIANGLES" THEN R_CullTriSurf(in.boxCull)
    ELSE FacePlaneCull(in.cullType, in.facePlaneCull, in.d)

CullIdle == [done |-> FALSE, culled |-> FALSE]

CullInit ==
    /\ RegistryIdle
    /\ md3in = NULL /\ md3out = NULL /\ mdrin = NULL /\ mdrout = NULL
    /\ \E surface \in SurfaceTypes, cullType \in CullTypes, nocull \in BOOLEAN,
          nocurves \in BOOLEAN, facePlaneCull \in BOOLEAN,
          sphereCull \in CullVerdicts, boxCull \in CullVerdicts, d \in PlaneDistances :
             input = [op |-> "R_CullSurface", surface |-> surface, cullType |-> cullType,
                      nocull |-> nocull, nocurves |-> nocurves,
                      facePlaneCull |-> facePlaneCull, sphereCull |-> sphereCull,
                      boxCull |-> boxCull, d |-> d]
    /\ outcome = CullIdle

CullSurface ==
    /\ ~outcome.done
    /\ outcome' = [done |-> TRUE, culled |-> R_CullSurface(input)]
    /\ UNCHANGED <<regVars, md3Vars, mdrVars, input>>

CullNext == CullSurface

SpecCull == CullInit /\ [][CullNext]_vars

----------------------------------------------------------------------------
(* Claims about surface culling *)

\* r_nocull is off and the shader is not two-sided
CullingApplies == ~input.nocull /\ input.cullType # "CT_TWO_SIDED"

\* C30: with r_nocull off and a shader that is not two-sided, R_CullSurface
\* returns R_CullGrid's verdict for an SF_GRID surface (every grid is culled
\* when r_nocurves is set), R_CullTriSurf's verdict for an SF_TRIANGLES
\* surface, the plane-distance test for an SF_FACE surface, and false for
\* every other surface type
C30_CullDispatch ==
    outcome.done /\ CullingApplies =>
       outcome.culled =
          CASE input.surface = "SF_GRID" ->
                  R_CullGrid(input.nocurves, input.sphereCull, input.boxCull)
            [] input.surface = "SF_TRIANGLES" -> R_CullTriSurf(input.boxCull)
            [] input.surface = "SF_FACE" ->
                  FacePlaneCull(input.cullType, input.facePlaneCull, input.d)
            [] OTHER -> FALSE

\* a grid is kept although r_nocurves is set
C30_GridKeptWithNoCurves ==
    /\ outcome.done /\ CullingApplies
    /\ input.surface = "SF_GRID" /\ input.nocurves /\ ~outcome.culled

\* a triangle surface whose bounds are outside the frustum is kept
C30_TrianglesOutsideKept ==
    /\ outcome.done /\ CullingApplies
    /\ input.surface = "SF_TRIANGLES" /\ input.boxCull = "CULL_OUT"
    /\ ~outcome.culled

\* what the code does do: only an SF_FACE surface is ever culled, then by the
\* plane-distance test, and every other surface type is kept
C30_OnlyFacesCulled ==
    outcome.done =>
       outcome.culled =
          /\ CullingApplies /\ input.surface = "SF_FACE"
          /\ FacePlaneCull(input.cullType, input.facePlaneCull, input.d)

====
